---- MODULE Spec2Model ----
(***************************************************************************)
(* Trend scoring and ranking engine of the marketplace backend             *)
(* (backend/app/services/trend_analysis_service.py) together with the      *)
(* tables it reads and writes.                                             *)
(*                                                                         *)
(* Numbers.  A Decimal with two fractional digits is held as an integer    *)
(* number of hundredths (42.00 is 4200).  An unrounded intermediate value  *)
(* is held as an exact fraction <<numerator, denominator>>.  The code      *)
(* computes the growth rates in binary floating point and the rest with    *)
(* 28-digit Decimals; for the counts and prices inside the bounds below    *)
(* the error of those intermediate roundings (below 1e-12) never reaches   *)
(* a boundary of the final round(x, 2), so rounding the exact fraction     *)
(* gives the value the code returns.                                       *)
(*                                                                         *)
(* A nullable column or an Optional result is <<>> (NULL / None) or <<x>>. *)
(***************************************************************************)
EXTENDS Integers, Sequences, FiniteSets, Bags, TLC

VARIABLES
    today,      \* date.today(), a day number
    accounts,   \* ebay_accounts: id -> [is_active]
    listings,   \* listings: id -> [account_id, is_active]
    metrics,    \* daily_metrics: bag of DailyMetric rows
    trends,     \* trend_analysis: bag of TrendAnalysis rows
    run,        \* per worker: the call of the service it is executing
    ret,        \* value returned by the call that completed last, NULL once another began
    syncs       \* calls of _insert_daily_metric made so far

vars == <<today, accounts, listings, metrics, trends, run, ret, syncs>>

----------------------------------------------------------------------------
(* Bounds of the model *)

\* largest counts drawn for the pure scoring function
MaxCount == 3
\* listings of the account in the large world
NumTop == 11
\* calls of _insert_daily_metric in one behaviour
MaxSyncs == 3

(* Program constants *)

\* _update_rankings(top_n=10)
TopN == 10
\* timedelta(days=6): the window is [analysis_date - 6, analysis_date]
WindowDays == 6
\* Decimal('0.4'), Decimal('0.4'), Decimal('0.2') in tenths
ViewWeight == 4
WatchWeight == 4
PriceWeight == 2

----------------------------------------------------------------------------
(* Optional values *)

NULL == <<>>
Some(x) == <<x>>
IsNull(o) == o = <<>>
Val(o) == o[1]

----------------------------------------------------------------------------
(* Decimal arithmetic *)

Abs(x) == IF x < 0 THEN -x ELSE x

RECURSIVE GCD(_, _)
GCD(a, b) == IF b = 0 THEN a ELSE GCD(b, a % b)

\* a fraction in lowest terms with a positive denominator
Frac(n, d) ==
    LET g == GCD(Abs(n), d)
    IN  <<n \div g, d \div g>>

\* round(Decimal, 0) of n/d: Python rounds a Decimal half to even
RoundHalfEven(n, d) ==
    LET q == n \div d
        r == n % d
    IN  IF 2 * r < d THEN q
        ELSE IF 2 * r > d THEN q + 1
        ELSE IF q % 2 = 0 THEN q ELSE q + 1

\* round(x, 2) of the fraction x, in hundredths
Round2(x) == RoundHalfEven(100 * x[1], x[2])

----------------------------------------------------------------------------
(* Queries on daily_metrics *)

\* variant: the latest snapshot up to d is accepted in place of the one of d
MetricsOn_UpTo(l, d) ==
    {m \in BagToSet(metrics) : m.listing_id = l /\ m.recorded_date <= d}

\* query(DailyMetric).filter(listing_id == l, recorded_date == d)
MetricsOn(l, d) ==
    {m \in BagToSet(metrics) : m.listing_id = l /\ m.recorded_date = d}

\* query(DailyMetric).filter(listing_id == l, seven_days_ago <= recorded_date <= d)
MetricsInWindow(l, d) ==
    {m \in BagToSet(metrics) :
        /\ m.listing_id = l
        /\ m.recorded_date >= d - WindowDays
        /\ m.recorded_date <= d}

\* the rows of the window whose current_price is not NULL
PricedInWindow(l, d) ==
    {m \in MetricsInWindow(l, d) : ~IsNull(m.current_price)}

\* len(rows) of a query result: every stored copy of a row counts
RECURSIVE RowCount(_)
RowCount(S) ==
    IF S = {} THEN 0
    ELSE LET m == CHOOSE x \in S : TRUE
         IN  CopiesIn(m, metrics) + RowCount(S \ {m})

\* sum(m.view_count for m in rows)
RECURSIVE TotalViews(_)
TotalViews(S) ==
    IF S = {} THEN 0
    ELSE LET m == CHOOSE x \in S : TRUE
         IN  CopiesIn(m, metrics) * m.view_count + TotalViews(S \ {m})

\* sum(m.watch_count for m in rows)
RECURSIVE TotalWatches(_)
TotalWatches(S) ==
    IF S = {} THEN 0
    ELSE LET m == CHOOSE x \in S : TRUE
         IN  CopiesIn(m, metrics) * m.watch_count + TotalWatches(S \ {m})

----------------------------------------------------------------------------
(* TrendAnalysisService.calculate_trend_score *)

\* variant: no rule for a counter that starts from zero
GrowthRate_NoZeroRule(t, y) ==
    IF y > 0 THEN Frac(100 * (t - y), y) ELSE <<0, 1>>

\* growth of one counter against the prior day's snapshot y
GrowthRate(t, y) ==
    IF y > 0 THEN Frac(100 * (t - y), y)
    ELSE IF t > 0 THEN <<100, 1>>
    ELSE <<0, 1>>

\* view growth; yRows is the result of the query for the prior day
ViewGrowth(t, yRows) ==
    IF yRows = {} THEN <<0, 1>>
    ELSE LET y == CHOOSE m \in yRows : TRUE
         IN  GrowthRate(t.view_count, y.view_count)

\* watch growth
WatchGrowth(t, yRows) ==
    IF yRows = {} THEN <<0, 1>>
    ELSE LET y == CHOOSE m \in yRows : TRUE
         IN  GrowthRate(t.watch_count, y.watch_count)

\* variant: the sum is divided by the length of the window
Average_BySeven(total, days_count) ==
    IF days_count = 0 THEN <<0, 1>> ELSE Frac(total, 7)

\* Decimal(total) / Decimal(days_count), 0 for an empty window
Average(total, days_count) ==
    IF days_count = 0 THEN <<0, 1>> ELSE Frac(total, days_count)

FracLess(x, y) == x[1] * y[2] < y[1] * x[2]

\* variant: the rate of change is returned as computed
Clamp100_None(x) == x

\* max(Decimal('-100.0'), min(Decimal('100.0'), x))
Clamp100(x) ==
    IF FracLess(<<100, 1>>, x) THEN <<100, 1>>
    ELSE IF FracLess(x, <<-100, 1>>) THEN <<-100, 1>>
    ELSE x

\* _calculate_price_momentum
CalculatePriceMomentum(l, d) ==
    LET priced == PricedInWindow(l, d)
    IN  IF RowCount(priced) < 2 THEN <<0, 1>>
        ELSE LET first == CHOOSE m \in priced :
                            \A o \in priced : m.recorded_date <= o.recorded_date
                 last  == CHOOSE m \in priced :
                            \A o \in priced : m.recorded_date >= o.recorded_date
                 first_price == Val(first.current_price)
                 last_price  == Val(last.current_price)
             IN  IF first_price = 0 THEN <<0, 1>>
                 ELSE Clamp100(Frac(100 * (last_price - first_price), first_price))

\* variant: the weighted sum is returned without the floor at 0
CompositeScore_NoFloor(vg, wg, pm) ==
    Frac(ViewWeight * vg[1] * wg[2] * pm[2]
           + WatchWeight * wg[1] * vg[2] * pm[2]
           + PriceWeight * pm[1] * vg[2] * wg[2],
         10 * vg[2] * wg[2] * pm[2])

\* view_growth * 0.4 + watch_growth * 0.4 + price_momentum * 0.2, floored at 0
CompositeScore(vg, wg, pm) ==
    LET sum == Frac(ViewWeight * vg[1] * wg[2] * pm[2]
                      + WatchWeight * wg[1] * vg[2] * pm[2]
                      + PriceWeight * pm[1] * vg[2] * wg[2],
                    10 * vg[2] * wg[2] * pm[2])
    IN  IF sum[1] < 0 THEN <<0, 1>> ELSE sum

\* the result dict, or NULL when the analysis date has no snapshot
CalculateTrendScore(l, d) ==
    LET todayRows == MetricsOn(l, d)
    IN  IF todayRows = {} THEN NULL
        ELSE LET today_metric == CHOOSE m \in todayRows : TRUE
                 yRows  == MetricsOn(l, d - 1)
                 vg     == ViewGrowth(today_metric, yRows)
                 wg     == WatchGrowth(today_metric, yRows)
                 window == MetricsInWindow(l, d)
                 days   == RowCount(window)
                 pm     == CalculatePriceMomentum(l, d)
             IN  Some([trend_score       |-> Round2(CompositeScore(vg, wg, pm)),
                       view_growth_rate  |-> Round2(vg),
                       watch_growth_rate |-> Round2(wg),
                       view_7day_avg     |-> Round2(Average(TotalViews(window), days)),
                       watch_7day_avg    |-> Round2(Average(TotalWatches(window), days))])

----------------------------------------------------------------------------
(* The divisions of calculate_trend_score and _calculate_price_momentum:   *)
(* the divisor of each, or NULL when the code does not reach the division. *)

\* line 76: / yesterday_metric.view_count
ViewGrowthDivisor(l, d) ==
    LET yRows == MetricsOn(l, d - 1)
    IN  IF yRows = {} THEN NULL
        ELSE LET y == CHOOSE m \in yRows : TRUE
             IN  IF y.view_count > 0 THEN Some(y.view_count) ELSE NULL

\* line 84: / yesterday_metric.watch_count
WatchGrowthDivisor(l, d) ==
    LET yRows == MetricsOn(l, d - 1)
    IN  IF yRows = {} THEN NULL
        ELSE LET y == CHOOSE m \in yRows : TRUE
             IN  IF y.watch_count > 0 THEN Some(y.watch_count) ELSE NULL

\* lines 106-107: / Decimal(days_count)
AverageDivisor(l, d) ==
    LET window == MetricsInWindow(l, d)
    IN  IF window = {} THEN NULL ELSE Some(RowCount(window))

\* variant: no test of the first price before the division
PriceDivisor_Unguarded(l, d) ==
    LET priced == PricedInWindow(l, d)
    IN  IF RowCount(priced) < 2 THEN NULL
        ELSE LET first == CHOOSE m \in priced :
                            \A o \in priced : m.recorded_date <= o.recorded_date
             IN  Some(Val(first.current_price))

\* line 167: / first_price
PriceDivisor(l, d) ==
    LET priced == PricedInWindow(l, d)
    IN  IF RowCount(priced) < 2 THEN NULL
        ELSE LET first == CHOOSE m \in priced :
                            \A o \in priced : m.recorded_date <= o.recorded_date
             IN  IF Val(first.current_price) = 0 THEN NULL
                 ELSE Some(Val(first.current_price))

\* calculate_trend_score(l, d) ends in ZeroDivisionError or
\* decimal.DivisionByZero: it has found the snapshot of d and divides by 0
CalculateTrendScoreRaises(l, d) ==
    /\ MetricsOn(l, d) # {}
    /\ Some(0) \in {ViewGrowthDivisor(l, d), WatchGrowthDivisor(l, d),
                     AverageDivisor(l, d), PriceDivisor(l, d)}

----------------------------------------------------------------------------
(* Rows *)

\* DailyMetric(listing_id, recorded_date, view_count, watch_count, bid_count, current_price)
DailyMetric(l, d, item) ==
    [listing_id    |-> l,
     recorded_date |-> d,
     view_count    |-> item.view_count,
     watch_count   |-> item.watch_count,
     bid_count     |-> item.bid_count,
     current_price |-> item.current_price]

\* no call in progress
Idle == [pc |-> "idle"]

----------------------------------------------------------------------------
(* Queries on listings, ebay_accounts and trend_analysis *)

\* query(Listing).filter(account_id == a, is_active == True)
ActiveListings(a) ==
    {l \in DOMAIN listings : listings[l].account_id = a /\ listings[l].is_active}

\* query(EbayAccount).filter(is_active == True)
ActiveAccounts == {a \in DOMAIN accounts : accounts[a].is_active}

\* query(TrendAnalysis).filter(listing_id == l, analysis_date == d)
TrendsOn(l, d) ==
    {t \in BagToSet(trends) : t.listing_id = l /\ t.analysis_date = d}

\* variant: the rows of the date, of every account
TrendsOfAccount_AnyAccount(a, d) ==
    {t \in BagToSet(trends) : t.analysis_date = d /\ t.listing_id \in DOMAIN listings}

\* query(TrendAnalysis).join(Listing).filter(Listing.account_id == a, analysis_date == d)
TrendsOfAccount(a, d) ==
    {t \in BagToSet(trends) :
        /\ t.analysis_date = d
        /\ t.listing_id \in DOMAIN listings
        /\ listings[t.listing_id].account_id = a}

----------------------------------------------------------------------------
(* TrendAnalysisService.analyze_listing *)

\* TrendAnalysis(listing_id=..., ..., is_trending=False); rank is left NULL
NewTrendAnalysis(l, d, result) ==
    [listing_id        |-> l,
     analysis_date     |-> d,
     trend_score       |-> result.trend_score,
     view_growth_rate  |-> result.view_growth_rate,
     watch_growth_rate |-> result.watch_growth_rate,
     view_7day_avg     |-> result.view_7day_avg,
     watch_7day_avg    |-> result.watch_7day_avg,
     rank              |-> NULL,
     is_trending       |-> FALSE]

\* variant: the update adds the new score to the stored one
UpdatedTrendAnalysis_Accumulate(existing, result) ==
    [existing EXCEPT !.trend_score       = @ + result.trend_score,
                     !.view_growth_rate  = result.view_growth_rate,
                     !.watch_growth_rate = result.watch_growth_rate,
                     !.view_7day_avg     = result.view_7day_avg,
                     !.watch_7day_avg    = result.watch_7day_avg]

\* the update branch: the five score fields of the existing row are overwritten
UpdatedTrendAnalysis(existing, result) ==
    [existing EXCEPT !.trend_score       = result.trend_score,
                     !.view_growth_rate  = result.view_growth_rate,
                     !.watch_growth_rate = result.watch_growth_rate,
                     !.view_7day_avg     = result.view_7day_avg,
                     !.watch_7day_avg    = result.watch_7day_avg]

\* variant: no look-up of the existing row, every scored call adds a row
AnalyzeListing_Insert(l, d) ==
    LET result == CalculateTrendScore(l, d)
    IN  IF IsNull(result) THEN trends
        ELSE trends (+) SetToBag({NewTrendAnalysis(l, d, Val(result))})

\* the trend_analysis table after analyze_listing(l, d) has committed
AnalyzeListing(l, d) ==
    LET result   == CalculateTrendScore(l, d)
        existing == TrendsOn(l, d)
    IN  IF IsNull(result) THEN trends
        ELSE IF existing # {}
             THEN LET e == CHOOSE t \in existing : TRUE
                  IN  (trends (-) SetToBag({e}))
                        (+) SetToBag({UpdatedTrendAnalysis(e, Val(result))})
             ELSE trends (+) SetToBag({NewTrendAnalysis(l, d, Val(result))})

\* variant: a skipped listing is appended to the results as well
AnalyzeListingReturnsRow_Always(l, d) == TRUE

\* analyze_listing returns a row (TRUE) or None (FALSE)
AnalyzeListingReturnsRow(l, d) == ~IsNull(CalculateTrendScore(l, d))

----------------------------------------------------------------------------
(* TrendAnalysisService._update_rankings *)

\* variant: the flag is given to the ranks below top_n only
RankedTrend_Below(t, rank) ==
    [t EXCEPT !.rank = Some(rank), !.is_trending = (rank < TopN)]

\* trend.rank = rank; trend.is_trending = (rank <= top_n)
RankedTrend(t, rank) ==
    [t EXCEPT !.rank = Some(rank), !.is_trending = (rank <= TopN)]

\* the stored rows of a query result, one item per stored copy
RowItems(S) ==
    {x \in S \X (1..BagCardinality(trends)) : x[2] <= CopiesIn(x[1], trends)}

\* variant: ORDER BY trend_score ASC
RECURSIVE ScoreDescOrders_Asc(_)
ScoreDescOrders_Asc(items) ==
    IF items = {} THEN {<<>>}
    ELSE LET low == {x \in items :
                        \A y \in items : x[1].trend_score <= y[1].trend_score}
         IN  UNION {{<<x>> \o q : q \in ScoreDescOrders_Asc(items \ {x})} : x \in low}

\* ORDER BY trend_score DESC: every order of the items in which the scores never
\* increase; the order among equal scores is the database's choice
RECURSIVE ScoreDescOrders(_)
ScoreDescOrders(items) ==
    IF items = {} THEN {<<>>}
    ELSE LET top == {x \in items :
                        \A y \in items : x[1].trend_score >= y[1].trend_score}
         IN  UNION {{<<x>> \o q : q \in ScoreDescOrders(items \ {x})} : x \in top}

\* variant: rows of equal score share a rank (1 + the number of better rows)
ApplyRanking_Shared(order) ==
    LET selected == {order[i][1] : i \in 1..Len(order)}
        rest     == [t \in (DOMAIN trends) \ selected |-> trends[t]]
        better(i) == {j \in 1..Len(order) :
                         order[j][1].trend_score > order[i][1].trend_score}
    IN  rest (+) SetToBag({RankedTrend(order[i][1], 1 + Cardinality(better(i))) :
                              i \in 1..Len(order)})

\* the table after the rows of `order` got rank = position and their flag
ApplyRanking(order) ==
    LET selected == {order[i][1] : i \in 1..Len(order)}
        rest     == [t \in (DOMAIN trends) \ selected |-> trends[t]]
    IN  rest (+) SetToBag({RankedTrend(order[i][1], i) : i \in 1..Len(order)})

\* the tables _update_rankings(a, d) may leave
UpdateRankings(a, d) ==
    {ApplyRanking(order) : order \in ScoreDescOrders(RowItems(TrendsOfAccount(a, d)))}

----------------------------------------------------------------------------
(* TrendAnalysisService.get_top_trending *)

\* r1 may precede r2 under ORDER BY rank ASC; the database puts NULL last
RankNotAfter(r1, r2) ==
    IF IsNull(r2) THEN TRUE
    ELSE IF IsNull(r1) THEN FALSE
    ELSE Val(r1) <= Val(r2)

\* ORDER BY rank ASC: every order of the items in which the ranks never decrease
RECURSIVE RankAscOrders(_)
RankAscOrders(items) ==
    IF items = {} THEN {<<>>}
    ELSE LET low == {x \in items :
                        \A y \in items : RankNotAfter(x[1].rank, y[1].rank)}
         IN  UNION {{<<x>> \o q : q \in RankAscOrders(items \ {x})} : x \in low}

\* .limit(limit).all(): the rows of the first `limit` items
FirstRows(order, limit) ==
    [i \in 1..(IF Len(order) < limit THEN Len(order) ELSE limit) |-> order[i][1]]

\* variant: the rows are not filtered by is_trending
GetTopTrending_All(a, d, limit) ==
    {FirstRows(order, limit) : order \in RankAscOrders(RowItems(TrendsOfAccount(a, d)))}

\* the lists get_top_trending(a, d, limit) may return
GetTopTrending(a, d, limit) ==
    {FirstRows(order, limit) :
        order \in RankAscOrders(RowItems({t \in TrendsOfAccount(a, d) : t.is_trending}))}

----------------------------------------------------------------------------
(* The scoring function on its own: one listing, snapshots drawn for the   *)
(* analysis date and the day before it.                                    *)

\* the analysis date of the scoring runs
ScoreDay == 2

\* prices in cents: NULL, 0.00, 20.00, 22.00
PriceValues == {NULL, Some(0), Some(2000), Some(2200)}

\* snapshots with larger counts: (views, watches, price) of two consecutive
\* days of a listing that gains half of its views and watchers, and of one
\* that goes from 32 views to 33
LargeSnapshots ==
    {[view_count |-> c[1], watch_count |-> c[2], bid_count |-> 0,
      current_price |-> c[3]] :
        c \in {<<100, 10, Some(2000)>>, <<150, 15, Some(2200)>>,
               <<32, 0, NULL>>, <<33, 0, NULL>>}}

\* a snapshot the sync may have stored, or none
SnapshotChoices ==
    {NULL} \cup
    {Some([view_count |-> v, watch_count |-> w, bid_count |-> 0, current_price |-> p]) :
        v \in 0..MaxCount, w \in 0..MaxCount, p \in PriceValues} \cup
    {Some(x) : x \in LargeSnapshots}

SnapshotBag(l, d, choice) ==
    IF IsNull(choice) THEN EmptyBag ELSE SetToBag({DailyMetric(l, d, Val(choice))})

InitScore ==
    /\ today = ScoreDay
    /\ accounts = [a \in {1} |-> [is_active |-> TRUE]]
    /\ listings = [l \in {1} |-> [account_id |-> 1, is_active |-> TRUE]]
    /\ \E t \in SnapshotChoices, y \in SnapshotChoices :
          metrics = SnapshotBag(1, ScoreDay, t) (+) SnapshotBag(1, ScoreDay - 1, y)
    /\ trends = EmptyBag
    /\ run = [p \in {1} |-> Idle]
    /\ ret = NULL
    /\ syncs = 0

\* service.calculate_trend_score(listing_id, analysis_date): it returns its
\* result or ends in the exception of a division
CallCalculateTrendScore ==
    /\ \E l \in DOMAIN listings :
          ret' = Some([op       |-> "calculate_trend_score",
                       listing  |-> l,
                       date     |-> today,
                       raised   |-> CalculateTrendScoreRaises(l, today),
                       result   |-> IF CalculateTrendScoreRaises(l, today)
                                    THEN NULL
                                    ELSE CalculateTrendScore(l, today)])
    /\ UNCHANGED <<today, accounts, listings, metrics, trends, run, syncs>>

\* which branch analyze_listing(l, d) takes: it returns None, updates the
\* existing row ("Updated trend analysis") or adds one ("Created trend analysis")
AnalyzeListingBranch(l, d) ==
    IF IsNull(CalculateTrendScore(l, d)) THEN "none"
    ELSE IF TrendsOn(l, d) # {} THEN "updated"
    ELSE "created"

\* service.analyze_listing(listing_id, analysis_date)
CallAnalyzeListing ==
    /\ \E l \in DOMAIN listings :
          /\ trends' = AnalyzeListing(l, today)
          /\ ret' = Some([op       |-> "analyze_listing",
                          listing  |-> l,
                          date     |-> today,
                          branch   |-> AnalyzeListingBranch(l, today)])
    /\ UNCHANGED <<today, accounts, listings, metrics, run, syncs>>

NextScore ==
    \/ CallCalculateTrendScore
    \/ CallAnalyzeListing

SpecScore == InitScore /\ [][NextScore]_vars

----------------------------------------------------------------------------
(* The small world: two seller accounts, three marketplace items (two of   *)
(* the first account, one of the second), two days, an empty database on   *)
(* day 1.  Calls run one after another; analyze_account and                *)
(* analyze_all_accounts take one step per query-and-commit.  The lists the *)
(* loops build (results, accounts_processed) are held as the sets of their *)
(* elements: every listing and account is visited once, so len() is the    *)
(* cardinality.                                                            *)

AllIdle == \A p \in DOMAIN run : run[p].pc = "idle"

\* the items the marketplace knows, and the seller account that owns each
ItemIds == {0, 1, 2}
ItemAccount(i) == IF i = 0 THEN 2 ELSE 1

\* the days the clock goes through
Days == {1, 2}

\* item_data as parsed from the marketplace response: (views, watches) of an
\* active item is one of (0, 0), (1, 0), (1, 1), which gives day-over-day scores
\* 0, 40 and 80; an ended item is reported as Completed
SyncItems ==
    {[view_count |-> c[1], watch_count |-> c[2], bid_count |-> 0,
      current_price |-> NULL, listing_status |-> c[3]] :
        c \in {<<0, 0, "Active">>, <<1, 0, "Active">>, <<1, 1, "Active">>,
               <<1, 0, "Completed">>}}

Init ==
    /\ today = 1
    /\ accounts = [a \in {1, 2} |-> [is_active |-> TRUE]]
    /\ listings = [l \in {} |-> [account_id |-> 0, is_active |-> TRUE]]
    /\ metrics = EmptyBag
    /\ trends = EmptyBag
    /\ run = [p \in {1} |-> Idle]
    /\ ret = NULL
    /\ syncs = 0

\* the listings table after _upsert_listing(account, item_data): the listing of
\* (account, item_id) is created when missing and is_active follows the status
UpsertListing(a, i, item) ==
    [l \in (DOMAIN listings) \cup {i} |->
        IF l = i
        THEN [account_id |-> a, is_active |-> (item.listing_status = "Active")]
        ELSE listings[l]]

\* variant: no look-up of today's row, every sync adds a row
InsertDailyMetric_Append(l, item) ==
    metrics (+) SetToBag({DailyMetric(l, today, item)})

\* the daily_metrics table after _insert_daily_metric(listing, item_data)
InsertDailyMetric(l, item) ==
    LET existing == MetricsOn(l, today)
    IN  IF existing # {}
        THEN LET e == CHOOSE m \in existing : TRUE
             IN  (metrics (-) SetToBag({e}))
                   (+) SetToBag({[e EXCEPT !.view_count    = item.view_count,
                                           !.watch_count   = item.watch_count,
                                           !.bid_count     = item.bid_count,
                                           !.current_price = item.current_price]})
        ELSE metrics (+) SetToBag({DailyMetric(l, today, item)})

\* sync_account_listings, lines 124-140: one item of a page is synced
SyncItem(i, item) ==
    /\ AllIdle
    /\ syncs < MaxSyncs
    /\ listings' = UpsertListing(ItemAccount(i), i, item)
    /\ metrics' = InsertDailyMetric(i, item)
    /\ syncs' = syncs + 1
    /\ ret' = NULL
    /\ UNCHANGED <<today, accounts, trends, run>>

\* midnight: date.today() moves on
Tick ==
    /\ AllIdle
    /\ today + 1 \in Days
    /\ today' = today + 1
    /\ ret' = NULL
    /\ UNCHANGED <<accounts, listings, metrics, trends, run, syncs>>

\* the state of a worker that enters the loop of analyze_account(a, d) over the
\* listings the query returned; the loop takes them in the order of the result,
\* which is any order
EnterAccount(r, a, d, found) ==
    [r EXCEPT !.pc = "scoring",
              !.account_id = a,
              !.analysis_date = d,
              !.enumerated = found,
              !.todo = found,
              !.results = {}]

\* analyze_account(a, d), lines 246-254: the listings are enumerated
StartAnalyzeAccount(p, a, d) ==
    /\ AllIdle
    /\ run' = [run EXCEPT ![p] =
                 EnterAccount([pc |-> "idle", kind |-> "account",
                               account_id |-> a, analysis_date |-> d,
                               enumerated |-> {}, todo |-> {}, results |-> {},
                               accounts_todo |-> {}, accounts_processed |-> {},
                               total_listings |-> 0],
                              a, d, ActiveListings(a))]
    /\ ret' = NULL
    /\ UNCHANGED <<today, accounts, listings, metrics, trends, syncs>>

\* analyze_all_accounts(d), lines 344-352: the accounts are enumerated
StartAnalyzeAllAccounts(p, d) ==
    /\ AllIdle
    /\ run' = [run EXCEPT ![p] =
                 [pc |-> "accounts", kind |-> "all",
                  account_id |-> 0, analysis_date |-> d,
                  enumerated |-> {}, todo |-> {}, results |-> {},
                  accounts_todo |-> ActiveAccounts, accounts_processed |-> {},
                  total_listings |-> 0]]
    /\ ret' = NULL
    /\ UNCHANGED <<today, accounts, listings, metrics, trends, syncs>>

\* analyze_all_accounts, line 356: analyze_account is entered for the next account
NextAccount(p) ==
    /\ run[p].pc = "accounts"
    /\ \E a \in run[p].accounts_todo :
          run' = [run EXCEPT ![p] =
                    EnterAccount([run[p] EXCEPT !.accounts_todo = @ \ {a}],
                                 a, run[p].analysis_date, ActiveListings(a))]
    /\ UNCHANGED <<today, accounts, listings, metrics, trends, ret, syncs>>

\* analyze_account, lines 255-262: one turn of the loop over the listings
AnalyzeNextListing(p) ==
    /\ run[p].pc = "scoring"
    /\ \E l \in run[p].todo :
          LET d == run[p].analysis_date
          IN  /\ trends' = AnalyzeListing(l, d)
              /\ run' = [run EXCEPT ![p].todo = @ \ {l},
                                    ![p].results =
                                        IF AnalyzeListingReturnsRow(l, d)
                                        THEN @ \cup {l} ELSE @]
    /\ UNCHANGED <<today, accounts, listings, metrics, ret, syncs>>

\* variant: the ranking pass does not wait for the end of the loop
RankAndReturn_Early(p) ==
    /\ run[p].pc = "scoring"
    /\ trends' \in UpdateRankings(run[p].account_id, run[p].analysis_date)
    /\ IF run[p].kind = "account"
       THEN /\ run' = [run EXCEPT ![p] = Idle]
            /\ ret' = Some([op         |-> "analyze_account",
                            account    |-> run[p].account_id,
                            date       |-> run[p].analysis_date,
                            enumerated |-> run[p].enumerated,
                            results    |-> run[p].results])
       ELSE /\ run' = [run EXCEPT ![p].pc = "accounts",
                                  ![p].total_listings = @ + Cardinality(run[p].results),
                                  ![p].accounts_processed =
                                      @ \cup {run[p].account_id}]
            /\ ret' = ret
    /\ UNCHANGED <<today, accounts, listings, metrics, syncs>>

\* analyze_account, lines 264-267: the ranking pass, then the results are returned
\* (to the caller, or to the loop of analyze_all_accounts, lines 357-358)
RankAndReturn(p) ==
    /\ run[p].pc = "scoring"
    /\ run[p].todo = {}
    /\ trends' \in UpdateRankings(run[p].account_id, run[p].analysis_date)
    /\ IF run[p].kind = "account"
       THEN /\ run' = [run EXCEPT ![p] = Idle]
            /\ ret' = Some([op         |-> "analyze_account",
                            account    |-> run[p].account_id,
                            date       |-> run[p].analysis_date,
                            enumerated |-> run[p].enumerated,
                            results    |-> run[p].results])
       ELSE /\ run' = [run EXCEPT ![p].pc = "accounts",
                                  ![p].total_listings = @ + Cardinality(run[p].results),
                                  ![p].accounts_processed =
                                      @ \cup {run[p].account_id}]
            /\ ret' = ret
    /\ UNCHANGED <<today, accounts, listings, metrics, syncs>>

\* analyze_all_accounts, lines 365-374: the summary is returned
FinishAllAccounts(p) ==
    /\ run[p].pc = "accounts"
    /\ run[p].accounts_todo = {}
    /\ run' = [run EXCEPT ![p] = Idle]
    /\ ret' = Some([op                      |-> "analyze_all_accounts",
                    date                    |-> run[p].analysis_date,
                    total_accounts          |-> Cardinality(run[p].accounts_processed),
                    total_listings_analyzed |-> run[p].total_listings,
                    accounts_processed      |-> run[p].accounts_processed])
    /\ UNCHANGED <<today, accounts, listings, metrics, trends, syncs>>

Next ==
    \/ \E i \in ItemIds, item \in SyncItems : SyncItem(i, item)
    \/ Tick
    \/ \E a \in DOMAIN accounts, d \in 1..today : StartAnalyzeAccount(1, a, d)
    \/ \E d \in 1..today : StartAnalyzeAllAccounts(1, d)
    \/ NextAccount(1)
    \/ AnalyzeNextListing(1)
    \/ RankAndReturn(1)
    \/ FinishAllAccounts(1)

Spec == Init /\ [][Next]_vars

----------------------------------------------------------------------------
(* The large world: one account with NumTop active listings on day 2.      *)
(* Every listing has a snapshot of day 1 (20 views); on day 2 listing i    *)
(* has 20 + TopGain(i) views, so the scores fall with i and listings TopN  *)
(* and TopN + 1 tie.  The snapshots of day 2 of listings 1 and TopN + 1   *)
(* may arrive late: the sync stores each of them once.                     *)

TopGain(i) == IF i <= TopN THEN TopN + 2 - i ELSE TopN + 3 - i

TopItem(views) ==
    [view_count |-> views, watch_count |-> 0, bid_count |-> 0,
     current_price |-> NULL, listing_status |-> "Active"]

LateItems == {1, TopN + 1}

RECURSIVE BagOfRows(_)
BagOfRows(S) ==
    IF S = {} THEN EmptyBag
    ELSE LET x == CHOOSE y \in S : TRUE
         IN  SetToBag({x}) (+) BagOfRows(S \ {x})

InitTop ==
    /\ today = 2
    /\ accounts = [a \in {1} |-> [is_active |-> TRUE]]
    /\ listings = [l \in 1..NumTop |-> [account_id |-> 1, is_active |-> TRUE]]
    /\ \E late \in SUBSET LateItems :
          metrics = BagOfRows(
              {DailyMetric(l, 1, TopItem(20)) : l \in 1..NumTop} \cup
              {DailyMetric(l, 2, TopItem(20 + TopGain(l))) : l \in (1..NumTop) \ late})
    /\ trends = EmptyBag
    /\ run = [p \in {1} |-> Idle]
    /\ ret = NULL
    /\ syncs = 0

\* the limits get_top_trending is called with: below, at and above top_n
TopLimits == {3, TopN, TopN + 1}

\* service.get_top_trending(account_id, analysis_date, limit)
CallGetTopTrending(a, d, limit) ==
    /\ AllIdle
    /\ \E q \in GetTopTrending(a, d, limit) :
          ret' = Some([op      |-> "get_top_trending",
                       account |-> a,
                       date    |-> d,
                       limit   |-> limit,
                       rows    |-> q])
    /\ UNCHANGED <<today, accounts, listings, metrics, trends, run, syncs>>

NextTop ==
    \/ \E limit \in TopLimits : CallGetTopTrending(1, today, limit)
    \/ \E i \in LateItems :
          /\ MetricsOn(i, today) = {}
          /\ SyncItem(i, TopItem(20 + TopGain(i)))
    \/ StartAnalyzeAccount(1, 1, today)
    \/ AnalyzeNextListing(1)
    \/ RankAndReturn(1)

SpecTop == InitTop /\ [][NextTop]_vars

----------------------------------------------------------------------------
(* The 7-day window: one listing scored for day 8, with snapshots drawn    *)
(* for days 1 (before the window), 2 (its first day), 4, 6, 8 and 9 (after *)
(* it).  Either the counts vary and no price is known, or the counts are   *)
(* fixed and the prices vary.                                              *)

WindowSnapshotDays == {1, 2, 4, 6, 8, 9}

\* (views, watches) of a snapshot whose price is unknown
WindowCounts == {<<10, 2>>, <<20, 0>>, <<30, 1>>}

\* prices in cents: NULL, 0.00, 10.00, 11.00, 30.00
WindowPrices == {NULL, Some(0), Some(1000), Some(1100), Some(3000)}

WindowCountChoices ==
    {NULL} \cup
    {Some([view_count |-> c[1], watch_count |-> c[2], bid_count |-> 0,
           current_price |-> NULL]) : c \in WindowCounts}

WindowPriceChoices ==
    {NULL} \cup
    {Some([view_count |-> 1, watch_count |-> 1, bid_count |-> 0,
           current_price |-> p]) : p \in WindowPrices}

\* the table that holds the snapshot f[d] for every day d that has one
WindowMetrics(f) ==
    BagOfRows({DailyMetric(1, d, Val(f[d])) :
                  d \in {x \in WindowSnapshotDays : ~IsNull(f[x])}})

InitWindow ==
    /\ today = 8
    /\ accounts = [a \in {1} |-> [is_active |-> TRUE]]
    /\ listings = [l \in {1} |-> [account_id |-> 1, is_active |-> TRUE]]
    /\ \/ \E f \in [WindowSnapshotDays -> WindowCountChoices] :
             metrics = WindowMetrics(f)
       \/ \E f \in [WindowSnapshotDays -> WindowPriceChoices] :
             metrics = WindowMetrics(f)
    /\ trends = EmptyBag
    /\ run = [p \in {1} |-> Idle]
    /\ ret = NULL
    /\ syncs = 0

\* service._calculate_price_momentum(listing_id, analysis_date); the Decimal it
\* returns is not rounded
CallCalculatePriceMomentum ==
    /\ \E l \in DOMAIN listings :
          ret' = Some([op       |-> "_calculate_price_momentum",
                       listing  |-> l,
                       date     |-> today,
                       momentum |-> CalculatePriceMomentum(l, today)])
    /\ UNCHANGED <<today, accounts, listings, metrics, trends, run, syncs>>

NextWindow ==
    \/ CallCalculateTrendScore
    \/ CallCalculatePriceMomentum

SpecWindow == InitWindow /\ [][NextWindow]_vars

----------------------------------------------------------------------------
(* Two workers call analyze_account for the same account and date, each on *)
(* its own session (get_db gives every caller a session of its own).  An   *)
(* analyze_listing call is a query followed by a commit, a ranking pass is *)
(* a query followed by a commit, and the statements of the two workers     *)
(* interleave.  A session holds the rows as it loaded them; its commit     *)
(* sends an UPDATE of the columns whose value differs from the loaded one, *)
(* or the INSERT of the new row, which the unique index on (listing_id,    *)
(* analysis_date) rejects when the row is there by then.                   *)

\* the number of analyze_account calls of the two workers together
MaxCalls == 3

RaceWorkers == {1, 2}

RaceListings == 1..3

\* listings 1 and 2 have a snapshot of day 1 with 5 views; listing 3 has
\* none, or one with these views
RaceViews == {0, 5}

InitRace ==
    /\ today = 1
    /\ accounts = [a \in {1} |-> [is_active |-> TRUE]]
    /\ listings = [l \in RaceListings |-> [account_id |-> 1, is_active |-> TRUE]]
    /\ \E last \in {NULL} \cup {Some(v) : v \in RaceViews} :
          metrics = BagOfRows(
              {DailyMetric(l, 1, TopItem(5)) : l \in RaceListings \ {3}} \cup
              {DailyMetric(3, 1, TopItem(Val(last))) : x \in {y \in {3} : ~IsNull(last)}})
    /\ trends = EmptyBag
    /\ run = [p \in RaceWorkers |-> [pc |-> "idle", calls |-> 0]]
    /\ ret = NULL
    /\ syncs = 0

\* the row the UPDATE of a session leaves: of the stored row, the columns in
\* which the session's object differs from what the session loaded
WriteChanged(stored, loaded, object) ==
    [c \in DOMAIN stored |-> IF object[c] # loaded[c] THEN object[c] ELSE stored[c]]

\* the table with row `old` replaced by row `new`
ReplaceRow(table, old, new) == (table (-) SetToBag({old})) (+) SetToBag({new})

\* analyze_account, lines 246-254
RaceStartAnalyzeAccount(p) ==
    /\ run[p].pc = "idle"
    /\ run[1].calls + run[2].calls < MaxCalls
    /\ run' = [run EXCEPT ![p] =
                 [pc |-> "scoring", calls |-> run[p].calls + 1,
                  account_id |-> 1, analysis_date |-> today,
                  todo |-> ActiveListings(1), results |-> {},
                  listing |-> 0, existing |-> NULL, loaded |-> <<>>]]
    /\ ret' = NULL
    /\ UNCHANGED <<today, accounts, listings, metrics, trends, syncs>>

\* analyze_listing, lines 189-198: the score, then the query for the stored row
RaceQueryExisting(p) ==
    /\ run[p].pc = "scoring"
    /\ \E l \in run[p].todo :
          LET d        == run[p].analysis_date
              existing == TrendsOn(l, d)
          IN  IF IsNull(CalculateTrendScore(l, d))
              THEN run' = [run EXCEPT ![p].todo = @ \ {l}]
              ELSE run' = [run EXCEPT ![p].pc = "commit",
                                      ![p].listing = l,
                                      ![p].existing =
                                          IF existing = {} THEN NULL
                                          ELSE Some(CHOOSE t \in existing : TRUE)]
    /\ UNCHANGED <<today, accounts, listings, metrics, trends, ret, syncs>>

\* analyze_listing, lines 200-229, and the except of analyze_account, lines
\* 260-262: the commit of the update or of the insert.  After a rejected
\* INSERT the worker goes on with the next listing, or it finds its session
\* unusable and analyze_account raises.
RaceCommitListing(p) ==
    /\ run[p].pc = "commit"
    /\ LET l      == run[p].listing
           d      == run[p].analysis_date
           result == Val(CalculateTrendScore(l, d))
           stored == TrendsOn(l, d)
       IN  IF ~IsNull(run[p].existing)
           THEN LET loaded == Val(run[p].existing)
                    row    == CHOOSE t \in stored : TRUE
                IN  /\ trends' = ReplaceRow(trends, row,
                                     WriteChanged(row, loaded,
                                                  UpdatedTrendAnalysis(loaded, result)))
                    /\ run' = [run EXCEPT ![p].pc = "scoring",
                                          ![p].todo = @ \ {l},
                                          ![p].results = @ \cup {l},
                                          ![p].listing = 0,
                                          ![p].existing = NULL]
                    /\ ret' = ret
           ELSE IF stored = {}
           THEN /\ trends' = trends (+) SetToBag({NewTrendAnalysis(l, d, result)})
                /\ run' = [run EXCEPT ![p].pc = "scoring",
                                      ![p].todo = @ \ {l},
                                      ![p].results = @ \cup {l},
                                      ![p].listing = 0]
                /\ ret' = ret
           ELSE /\ trends' = trends
                /\ \/ /\ run' = [run EXCEPT ![p].pc = "scoring", ![p].todo = @ \ {l},
                                            ![p].listing = 0]
                      /\ ret' = ret
                   \/ /\ run' = [run EXCEPT ![p] = [pc |-> "idle", calls |-> run[p].calls]]
                      /\ ret' = Some([op |-> "analyze_account", worker |-> p,
                                      raised |-> TRUE])
    /\ UNCHANGED <<today, accounts, listings, metrics, syncs>>

\* _update_rankings, lines 284-289: the rows of the account, by falling score
RaceQueryRankings(p) ==
    /\ run[p].pc = "scoring"
    /\ run[p].todo = {}
    /\ \E order \in ScoreDescOrders(RowItems(TrendsOfAccount(run[p].account_id,
                                                              run[p].analysis_date))) :
          run' = [run EXCEPT ![p].pc = "ranking",
                             ![p].loaded = [i \in 1..Len(order) |-> order[i][1]]]
    /\ UNCHANGED <<today, accounts, listings, metrics, trends, ret, syncs>>

\* _update_rankings, lines 292-295: the rows of the account after the commit
RaceRankedRows(p) ==
    LET loaded == run[p].loaded
        stored(i) == CHOOSE t \in TrendsOn(loaded[i].listing_id, loaded[i].analysis_date) : TRUE
    IN  {WriteChanged(stored(i), loaded[i], RankedTrend(loaded[i], i)) :
            i \in 1..Len(loaded)}

\* _update_rankings, lines 292-297, and analyze_account, line 267
RaceCommitRankings(p) ==
    /\ run[p].pc = "ranking"
    /\ LET ranked == {run[p].loaded[i].listing_id : i \in 1..Len(run[p].loaded)}
           rest   == {t \in BagToSet(trends) : t.listing_id \notin ranked}
       IN  trends' = BagOfRows(rest \cup RaceRankedRows(p))
    /\ run' = [run EXCEPT ![p] = [pc |-> "idle", calls |-> run[p].calls]]
    /\ ret' = Some([op |-> "analyze_account", worker |-> p, raised |-> FALSE,
                    results |-> run[p].results])
    /\ UNCHANGED <<today, accounts, listings, metrics, syncs>>

NextRace ==
    \E p \in RaceWorkers :
       \/ RaceStartAnalyzeAccount(p)
       \/ RaceQueryExisting(p)
       \/ RaceCommitListing(p)
       \/ RaceQueryRankings(p)
       \/ RaceCommitRankings(p)

SpecRace == InitRace /\ [][NextRace]_vars

----------------------------------------------------------------------------
(* The Celery tasks analyze_single_account and analyze_all_trends.  A task *)
(* opens a session, runs the service on it and closes it; an exception     *)
(* that reaches the task makes it ask for a retry.  Statements on the      *)
(* database may fail: the query for the accounts or for the listings, the  *)
(* commit of a listing's result, the commit of the ranks.  The service     *)
(* never calls rollback(), so after a failed statement the session is      *)
(* either still usable or inactive, and every statement on an inactive     *)
(* session raises.                                                         *)

\* the number of failing statements in one execution of a task
MaxFaults == 2

\* @celery.task(max_retries=3)
MaxRetries == 3

\* self.retry(exc=exc, countdown=300)
RetryCountdown == 300

\* the states a session can be left in by a failed statement
AfterFailure == {"active", "inactive"}

\* the account of each listing: listings 1 and 2 belong to account 1, listing
\* l > 2 to account l - 1
AllAccountOf(l) == IF l <= 2 THEN 1 ELSE l - 1

\* a task that is not executing; the session it used is closed
TaskIdle(kind, a, retries) ==
    [pc |-> "idle", kind |-> kind, account_id |-> a, analysis_date |-> 0,
     enumerated |-> {}, todo |-> {}, results |-> {},
     accounts_todo |-> {}, accounts_processed |-> {}, total_listings |-> 0,
     session |-> "closed", retries |-> retries,
     faults |-> 0, failed |-> {}, faulted |-> {}]

\* the task after an execution: idle, with the failures of the execution
TaskEnds(r, retries) ==
    [TaskIdle(r.kind, r.account_id, retries) EXCEPT !.faults = r.faults,
                                                    !.failed = r.failed,
                                                    !.faulted = r.faulted]

InitTask ==
    /\ today = 1
    /\ accounts = [a \in 1..4 |-> [is_active |-> a # 4]]
    /\ listings = [l \in 1..5 |-> [account_id |-> AllAccountOf(l), is_active |-> TRUE]]
    /\ \E have \in SUBSET (1..5) :
          metrics = BagOfRows({DailyMetric(l, 1, TopItem(l)) : l \in have})
    /\ trends = EmptyBag
    /\ run = [p \in {1} |-> TaskIdle("account", 1, 0)]
    /\ ret = NULL
    /\ syncs = 0

\* a retry has been requested and not yet executed
RetryPending == ~IsNull(ret) /\ Val(ret).status = "retry"

\* the task starts an execution: db = SessionLocal(), lines 35 and 91
BeginTask(p, kind, a, retries) ==
    /\ run' = [run EXCEPT ![p] =
                 [TaskIdle(kind, a, retries) EXCEPT !.pc = "begin",
                                                    !.analysis_date = today,
                                                    !.session = "active"]]
    /\ ret' = NULL
    /\ UNCHANGED <<today, accounts, listings, metrics, trends, syncs>>

\* analyze_single_account.delay(a) / analyze_all_trends.delay()
StartTask(p) ==
    /\ run[p].pc = "idle"
    /\ ~RetryPending
    /\ \/ \E a \in ActiveAccounts : BeginTask(p, "account", a, 0)
       \/ BeginTask(p, "all", 0, 0)

\* the retry is executed, with the arguments of the failed execution
RetryTask(p) ==
    /\ run[p].pc = "idle"
    /\ RetryPending
    /\ BeginTask(p, run[p].kind, run[p].account_id, run[p].retries)

\* variant: the task logs the exception and reports success
TaskRaises_Swallowed(p, r) ==
    /\ run' = [run EXCEPT ![p] = TaskEnds(r, 0)]
    /\ ret' = Some([op |-> r.kind, status |-> "success", retries |-> 0,
                    countdown |-> 0, listings_analyzed |-> 0,
                    total_accounts |-> 0, accounts_processed |-> {}])

\* the except and finally of the tasks, lines 62-67 and 114-119: self.retry
\* raises Retry while the retries are not used up and the exception after that
TaskRaises(p, r) ==
    IF r.retries < MaxRetries
    THEN /\ run' = [run EXCEPT ![p] = TaskEnds(r, r.retries + 1)]
         /\ ret' = Some([op |-> r.kind, status |-> "retry",
                         retries |-> r.retries + 1,
                         countdown |-> RetryCountdown, listings_analyzed |-> 0,
                         total_accounts |-> 0, accounts_processed |-> {}])
    ELSE /\ run' = [run EXCEPT ![p] = TaskEnds(r, 0)]
         /\ ret' = Some([op |-> r.kind, status |-> "failure",
                         retries |-> r.retries,
                         countdown |-> 0, listings_analyzed |-> 0,
                         total_accounts |-> 0, accounts_processed |-> {}])

\* the return and finally of the tasks, lines 54-60, 107-112, 67 and 119
TaskReturns(p, listings_analyzed, total_accounts, accounts_processed) ==
    /\ run' = [run EXCEPT ![p] = TaskEnds(run[p], 0)]
    /\ ret' = Some([op |-> run[p].kind, status |-> "success", retries |-> 0,
                    countdown |-> 0, listings_analyzed |-> listings_analyzed,
                    total_accounts |-> total_accounts,
                    accounts_processed |-> accounts_processed])

\* the state of the worker that enters analyze_account(a, d)
TaskEnterAccount(r, a) ==
    [EnterAccount(r, a, r.analysis_date, ActiveListings(a)) EXCEPT !.failed = {}]

\* the first query of the service: the listings of the account
\* (analyze_account, lines 247-250) or the active accounts
\* (analyze_all_accounts, lines 344-346)
Enumerate(p) ==
    /\ run[p].pc = "begin"
    /\ \/ /\ run[p].kind = "account"
          /\ run' = [run EXCEPT ![p] = TaskEnterAccount(run[p], run[p].account_id)]
          /\ ret' = ret
       \/ /\ run[p].kind = "all"
          /\ run' = [run EXCEPT ![p].pc = "accounts",
                                ![p].accounts_todo = ActiveAccounts]
          /\ ret' = ret
    /\ UNCHANGED <<today, accounts, listings, metrics, trends, syncs>>

\* the first query of the service raises
EnumerateFails(p) ==
    /\ run[p].pc = "begin"
    /\ TaskRaises(p, run[p])
    /\ UNCHANGED <<today, accounts, listings, metrics, trends, syncs>>

\* analyze_all_accounts, lines 354-363: the next account; its listings are
\* enumerated, or the query raises (on an inactive session it always does)
\* and the account is skipped
TaskNextAccount(p) ==
    /\ run[p].pc = "accounts"
    /\ \E a \in run[p].accounts_todo :
          LET r == [run[p] EXCEPT !.accounts_todo = @ \ {a}, !.account_id = a]
          IN  IF run[p].session = "inactive"
              THEN run' = [run EXCEPT ![p] = r]
              ELSE \/ run' = [run EXCEPT ![p] = TaskEnterAccount(r, a)]
                   \/ /\ run[p].faults < MaxFaults
                      /\ \E s \in AfterFailure :
                            run' = [run EXCEPT ![p] =
                                      [r EXCEPT !.session = s,
                                                !.faults = @ + 1,
                                                !.faulted = @ \cup {a}]]
    /\ UNCHANGED <<today, accounts, listings, metrics, trends, ret, syncs>>

\* analyze_account, lines 255-262: one turn of the loop.  analyze_listing
\* returns, or its commit raises (lines 226), or - the session being inactive -
\* its first query raises; the except logs the exception and the loop goes on
TaskAnalyzeNextListing(p) ==
    /\ run[p].pc = "scoring"
    /\ \E l \in run[p].todo :
          LET d == run[p].analysis_date
          IN  IF run[p].session = "inactive"
              THEN /\ trends' = trends
                   /\ run' = [run EXCEPT ![p].todo = @ \ {l}]
              ELSE \/ /\ trends' = AnalyzeListing(l, d)
                      /\ run' = [run EXCEPT ![p].todo = @ \ {l},
                                            ![p].results =
                                                IF AnalyzeListingReturnsRow(l, d)
                                                THEN @ \cup {l} ELSE @]
                   \/ /\ AnalyzeListingReturnsRow(l, d)
                      /\ run[p].faults < MaxFaults
                      /\ trends' = trends
                      /\ \E s \in AfterFailure :
                            run' = [run EXCEPT ![p].todo = @ \ {l},
                                               ![p].session = s,
                                               ![p].faults = @ + 1,
                                               ![p].failed = @ \cup {l},
                                               ![p].faulted = @ \cup {run[p].account_id}]
    /\ UNCHANGED <<today, accounts, listings, metrics, ret, syncs>>

\* analyze_account has raised: to the task, or to the loop of
\* analyze_all_accounts (lines 361-363), which goes on
AccountRaises(p, r) ==
    IF run[p].kind = "account"
    THEN TaskRaises(p, r)
    ELSE /\ run' = [run EXCEPT ![p] = [r EXCEPT !.pc = "accounts"]]
         /\ ret' = ret

\* analyze_account, lines 264-267: the ranking pass and the return; the query
\* of the ranking pass raises on an inactive session, and its commit may fail
TaskRankAndReturn(p) ==
    /\ run[p].pc = "scoring"
    /\ run[p].todo = {}
    /\ IF run[p].session = "inactive"
       THEN /\ trends' = trends
            /\ AccountRaises(p, run[p])
       ELSE \/ /\ trends' \in UpdateRankings(run[p].account_id, run[p].analysis_date)
               /\ IF run[p].kind = "account"
                  THEN TaskReturns(p, Cardinality(run[p].results), 0, {})
                  ELSE /\ run' = [run EXCEPT ![p].pc = "accounts",
                                             ![p].total_listings =
                                                 @ + Cardinality(run[p].results),
                                             ![p].accounts_processed =
                                                 @ \cup {run[p].account_id}]
                       /\ ret' = ret
            \/ /\ run[p].faults < MaxFaults
               /\ trends' = trends
               /\ \E s \in AfterFailure :
                     AccountRaises(p, [run[p] EXCEPT !.session = s,
                                                     !.faults = @ + 1,
                                                     !.faulted = @ \cup {run[p].account_id}])
    /\ UNCHANGED <<today, accounts, listings, metrics, syncs>>

\* analyze_all_accounts, lines 365-374, and the return of analyze_all_trends
TaskFinishAllAccounts(p) ==
    /\ run[p].pc = "accounts"
    /\ run[p].accounts_todo = {}
    /\ TaskReturns(p, run[p].total_listings,
                   Cardinality(run[p].accounts_processed), run[p].accounts_processed)
    /\ UNCHANGED <<today, accounts, listings, metrics, trends, syncs>>

NextTask ==
    \/ StartTask(1)
    \/ RetryTask(1)
    \/ Enumerate(1)
    \/ EnumerateFails(1)
    \/ TaskNextAccount(1)
    \/ TaskAnalyzeNextListing(1)
    \/ TaskRankAndReturn(1)
    \/ TaskFinishAllAccounts(1)

SpecTask == InitTask /\ [][NextTask]_vars

----------------------------------------------------------------------------
(* EbayDataSyncService.sync_account_listings for one account, statement by *)
(* statement.  The marketplace holds two pages: eleven items on the first, *)
(* an entry without item id and one more item on the second; GetItem       *)
(* fails for the items of `unavailable`.  In this specification `syncs`    *)
(* holds what the service keeps in Redis: the call counter of the tenant's *)
(* trading API and the sync_status mark of the account, per day.           *)

\* the number of sync_account_listings calls
MaxSyncRuns == 3

\* self.daily_limit = 5000
DailyLimit == 5000

\* errors[:10]
ErrorLimit == 10

\* the item ids of the entries of each page; 0 is an entry without item id
SyncPages == <<[i \in 1..11 |-> i], <<0, 12>>>>

\* the sets of items GetItem fails for
UnavailableChoices == {{}, {2}, 1..9, 1..10, 1..11, 1..12}

\* the counter of the day when the first sync starts
CounterChoices == {0, DailyLimit - 2, DailyLimit - 1, DailyLimit}

\* item_data of an item as GetItem returns it
SyncItemData(i) == TopItem(i)

SyncIdle(r) ==
    [pc |-> "idle", runs |-> r.runs, unavailable |-> r.unavailable,
     page |-> 0, todo |-> <<>>, synced_count |-> 0, failed_count |-> 0,
     errors |-> <<>>, requests |-> 0, recorded |-> 0]

InitSync ==
    /\ today = 1
    /\ accounts = [a \in {1} |-> [is_active |-> TRUE, last_sync_at |-> NULL]]
    /\ listings = [l \in {} |-> [account_id |-> 0, is_active |-> TRUE]]
    /\ metrics = EmptyBag
    /\ trends = EmptyBag
    /\ \E u \in UnavailableChoices :
          run = [p \in {1} |-> SyncIdle([runs |-> 0, unavailable |-> u])]
    /\ ret = NULL
    /\ \E c \in CounterChoices :
          syncs = [counter |-> [d \in Days |-> IF d = 1 THEN c ELSE 0],
                   marked  |-> {}]

\* errors[:10]
FirstErrors(errors) ==
    SubSeq(errors, 1, IF Len(errors) < ErrorLimit THEN Len(errors) ELSE ErrorLimit)

\* line 195: 'errors': errors
FatalErrors(errors) == errors

\* lines 185-196: the fatal path
SyncFatal(p, r) ==
    /\ run' = [run EXCEPT ![p] = SyncIdle(r)]
    /\ ret' = Some([op |-> "sync_account_listings", path |-> "fatal",
                    items_synced |-> r.synced_count,
                    items_failed |-> r.failed_count,
                    sync_time |-> NULL,
                    errors |-> FatalErrors(Append(r.errors, [item |-> 0, fatal |-> TRUE])),
                    cached |-> NULL,
                    requests |-> r.requests, recorded |-> r.recorded])

\* CacheService.is_synced_today
IsSyncedToday == today \in syncs.marked

\* lines 63-80: the call starts; a marked account is answered from the cache
StartSync(p) ==
    /\ run[p].pc = "idle"
    /\ run[p].runs < MaxSyncRuns
    /\ IF IsSyncedToday
       THEN /\ run' = [run EXCEPT ![p].runs = @ + 1]
            /\ ret' = Some([op |-> "sync_account_listings", path |-> "cached",
                            items_synced |-> 0, items_failed |-> 0,
                            sync_time |-> accounts[1].last_sync_at,
                            errors |-> <<>>, cached |-> Some(TRUE),
                            requests |-> 0, recorded |-> 0])
       ELSE /\ run' = [run EXCEPT ![p].pc = "token", ![p].runs = @ + 1, ![p].page = 1]
            /\ ret' = NULL
    /\ UNCHANGED <<today, accounts, listings, metrics, trends, syncs>>

\* lines 84-87: get_valid_access_token returns or raises
GetAccessToken(p) ==
    /\ run[p].pc = "token"
    /\ \/ /\ run' = [run EXCEPT ![p].pc = "check"]
          /\ ret' = ret
       \/ SyncFatal(p, run[p])
    /\ UNCHANGED <<today, accounts, listings, metrics, trends, syncs>>

\* RateLimiter.check_rate_limit(tenant, "trading", required_calls)
CheckRateLimit(required_calls) ==
    ~(syncs.counter[today] + required_calls > DailyLimit)

\* lines 95-97: the check before the page is fetched
CheckBeforePage(p) ==
    /\ run[p].pc = "check"
    /\ IF CheckRateLimit(1)
       THEN /\ run' = [run EXCEPT ![p].pc = "fetch"]
            /\ ret' = ret
       ELSE SyncFatal(p, run[p])
    /\ UNCHANGED <<today, accounts, listings, metrics, trends, syncs>>

\* RateLimiter.record_api_call(tenant, "trading", call_count)
RecordApiCall(call_count) ==
    [syncs EXCEPT !.counter[today] = @ + call_count]

\* lines 99-116: get_my_ebay_selling is called; when it returns, the call is
\* recorded and the entries of the page are taken
FetchPage(p) ==
    /\ run[p].pc = "fetch"
    /\ \/ /\ syncs' = RecordApiCall(1)
          /\ run' = [run EXCEPT ![p].pc = "items",
                                ![p].todo = SyncPages[run[p].page],
                                ![p].requests = @ + 1,
                                ![p].recorded = @ + 1]
          /\ ret' = ret
       \/ /\ syncs' = syncs
          /\ SyncFatal(p, [run[p] EXCEPT !.requests = @ + 1])
    /\ UNCHANGED <<today, accounts, listings, metrics, trends>>

\* lines 119-147: one entry of the page
SyncNextItem(p) ==
    /\ run[p].pc = "items"
    /\ run[p].todo # <<>>
    /\ LET i == Head(run[p].todo)
       IN  IF i = 0
           THEN /\ run' = [run EXCEPT ![p].todo = Tail(@)]
                /\ UNCHANGED <<listings, metrics>>
           ELSE IF i \in run[p].unavailable
           THEN /\ run' = [run EXCEPT ![p].todo = Tail(@),
                                      ![p].requests = @ + 1,
                                      ![p].failed_count = @ + 1,
                                      ![p].errors =
                                          Append(@, [item |-> i, fatal |-> FALSE])]
                /\ UNCHANGED <<listings, metrics>>
           ELSE /\ run' = [run EXCEPT ![p].todo = Tail(@),
                                      ![p].requests = @ + 1,
                                      ![p].synced_count = @ + 1]
                /\ listings' = UpsertListing(1, i, SyncItemData(i))
                /\ metrics' = InsertDailyMetric(i, SyncItemData(i))
    /\ UNCHANGED <<today, accounts, trends, ret, syncs>>

\* lines 149-158: the page is committed; the loop ends after the last page
EndPage(p) ==
    /\ run[p].pc = "items"
    /\ run[p].todo = <<>>
    /\ IF run[p].page >= Len(SyncPages)
       THEN run' = [run EXCEPT ![p].pc = "finish"]
       ELSE run' = [run EXCEPT ![p].pc = "check", ![p].page = @ + 1]
    /\ UNCHANGED <<today, accounts, listings, metrics, trends, ret, syncs>>

\* variant: the account is marked on the fatal path as well
FinishFails_Marked(p) ==
    /\ syncs' = [syncs EXCEPT !.marked = @ \cup {today}]
    /\ accounts' = accounts
    /\ SyncFatal(p, run[p])

\* lines 161-166: the last commits raise
FinishFails(p) ==
    /\ syncs' = syncs
    /\ accounts' = accounts
    /\ SyncFatal(p, run[p])

\* lines 160-183: last_sync_at is set, the account is marked, the result is
\* returned
FinishSync(p) ==
    /\ run[p].pc = "finish"
    /\ \/ /\ accounts' = [accounts EXCEPT ![1].last_sync_at = Some(today)]
          /\ syncs' = [syncs EXCEPT !.marked = @ \cup {today}]
          /\ run' = [run EXCEPT ![p] = SyncIdle(run[p])]
          /\ ret' = Some([op |-> "sync_account_listings", path |-> "normal",
                          items_synced |-> run[p].synced_count,
                          items_failed |-> run[p].failed_count,
                          sync_time |-> Some(today),
                          errors |-> FirstErrors(run[p].errors),
                          cached |-> Some(FALSE),
                          requests |-> run[p].requests,
                          recorded |-> run[p].recorded])
       \/ FinishFails(p)
    /\ UNCHANGED <<today, listings, metrics, trends>>

\* midnight, between two calls
SyncTick ==
    /\ run[1].pc = "idle"
    /\ today + 1 \in Days
    /\ today' = today + 1
    /\ ret' = NULL
    /\ UNCHANGED <<accounts, listings, metrics, trends, run, syncs>>

NextSync ==
    \/ StartSync(1)
    \/ GetAccessToken(1)
    \/ CheckBeforePage(1)
    \/ FetchPage(1)
    \/ SyncNextItem(1)
    \/ EndPage(1)
    \/ FinishSync(1)
    \/ SyncTick

SpecSync == InitSync /\ [][NextSync]_vars

----------------------------------------------------------------------------
(* Several sync runs of one tenant on one day, each at the loop of lines    *)
(* 94-107 of sync_account_listings: check_rate_limit reads the counter      *)
(* (GET), the page is fetched, record_api_call adds one to the counter      *)
(* (INCR).  Each Redis command is atomic; the steps of the runs interleave. *)

\* the number of pages one run fetches
MaxPages == 3

\* the sync runs of the tenant
Runs == {1, 2}

\* the counter of the day when the runs begin
LimitCounterChoices == (DailyLimit - 4) .. DailyLimit

InitLimit ==
    /\ today = 1
    /\ accounts = [a \in {1} |-> [is_active |-> TRUE, last_sync_at |-> NULL]]
    /\ listings = <<>>
    /\ metrics = EmptyBag
    /\ trends = EmptyBag
    /\ run = [p \in Runs |-> [pc |-> "check", page |-> 1, requests |-> 0]]
    /\ ret = NULL
    /\ \E c \in LimitCounterChoices :
          syncs = [counter |-> [d \in Days |-> IF d = 1 THEN c ELSE 0],
                   marked |-> {}]

\* lines 95-97: check_rate_limit(tenant, "trading", 1); False raises
\* EbayRateLimitError and the run ends
LimitCheck(p) ==
    /\ run[p].pc = "check"
    /\ run' = [run EXCEPT ![p].pc = IF CheckRateLimit(1) THEN "fetch" ELSE "refused"]
    /\ UNCHANGED <<today, accounts, listings, metrics, trends, ret, syncs>>

\* lines 99-104: the request is sent
LimitFetch(p) ==
    /\ run[p].pc = "fetch"
    /\ run' = [run EXCEPT ![p].pc = "record", ![p].requests = @ + 1]
    /\ UNCHANGED <<today, accounts, listings, metrics, trends, ret, syncs>>

\* line 107 and lines 155-158: record_api_call(tenant, "trading", 1), then the
\* next page or the end of the loop
LimitRecord(p) ==
    /\ run[p].pc = "record"
    /\ syncs' = RecordApiCall(1)
    /\ run' = [run EXCEPT ![p].pc = IF run[p].page >= MaxPages THEN "done" ELSE "check",
                          ![p].page = IF run[p].page >= MaxPages THEN @ ELSE @ + 1]
    /\ UNCHANGED <<today, accounts, listings, metrics, trends, ret>>

NextLimit ==
    \E p \in Runs :
        \/ LimitCheck(p)
        \/ LimitFetch(p)
        \/ LimitRecord(p)

SpecLimit == InitLimit /\ [][NextLimit]_vars

----------------------------------------------------------------------------
(* GET /trends/top (backend/app/api/trends.py, get_top_trending).  Two      *)
(* tenants: accounts 1 and 2 belong to tenant 1, account 3 to tenant 2;     *)
(* listing i is of account i.  Analyses store TrendAnalysis rows of any     *)
(* listing and day, one per (listing, day); a request names the calling     *)
(* tenant, an optional analysis_date, a limit and an optional account_id.   *)

Tenants == {1, 2}

\* the values of the query parameter limit (default 10)
LimitChoices == {1, 10}

\* a stored TrendAnalysis row as the endpoint reads it
ApiTrendRow(l, d, trending) ==
    [listing_id    |-> l,
     analysis_date |-> d,
     trend_score   |-> IF trending THEN 5000 ELSE 0,
     rank          |-> IF trending THEN Some(1) ELSE NULL,
     is_trending   |-> trending]

InitApi ==
    /\ today = 1
    /\ \E active \in BOOLEAN :
          accounts = [a \in 1..3 |->
                        [tenant_id |-> IF a <= 2 THEN 1 ELSE 2,
                         is_active |-> IF a = 2 THEN active ELSE TRUE]]
    /\ listings = [l \in 1..3 |-> [account_id |-> l, is_active |-> TRUE]]
    /\ metrics = EmptyBag
    /\ trends = EmptyBag
    /\ run = [p \in {1} |-> Idle]
    /\ ret = NULL
    /\ syncs = 0

\* the tenant that owns a TrendAnalysis row, through its listing and account
TenantOfRow(t) == accounts[listings[t.listing_id].account_id].tenant_id

\* the TrendAnalysis rows of a tenant
RowsOfTenant(tenant) ==
    {t \in BagToSet(trends) : TenantOfRow(t) = tenant}

\* lines 62-65: query(EbayAccount.id).filter(tenant_id == current_tenant.id,
\* is_active == True)
TenantAccountIds(tenant) ==
    {a \in DOMAIN accounts : accounts[a].tenant_id = tenant /\ accounts[a].is_active}

\* lines 48-58: the given date, or the analysis_date of the first row of
\* query(TrendAnalysis).order_by(analysis_date.desc()), or today without rows
ChosenAnalysisDate(rows, analysis_date) ==
    IF ~IsNull(analysis_date) THEN Val(analysis_date)
    ELSE IF rows = {} THEN today
    ELSE CHOOSE d \in {t.analysis_date : t \in rows} :
            \A t \in rows : t.analysis_date <= d

\* lines 67-85: the joined query with its filters
TopQuery(rows, tenant, d, account_id) ==
    {t \in rows :
        /\ t.listing_id \in DOMAIN listings
        /\ listings[t.listing_id].account_id \in TenantAccountIds(tenant)
        /\ t.analysis_date = d
        /\ t.is_trending
        /\ (IsNull(account_id) \/ listings[t.listing_id].account_id = Val(account_id))}

\* lines 48-119: the responses the endpoint may give when the table
\* trend_analysis holds `rows`
TopResponses(rows, tenant, analysis_date, limit, account_id) ==
    LET d == ChosenAnalysisDate(rows, analysis_date)
    IN  {[analysis_date |-> d, total_count |-> Len(FirstRows(order, limit)),
          trends |-> FirstRows(order, limit)] :
            order \in RankAscOrders(RowItems(TopQuery(rows, tenant, d, account_id)))}

\* an analysis stores the row of a listing and day that has none
ApiStoreTrend(l, d, trending) ==
    /\ TrendsOn(l, d) = {}
    /\ trends' = trends (+) SetToBag({ApiTrendRow(l, d, trending)})
    /\ UNCHANGED <<today, accounts, listings, metrics, run, ret, syncs>>

\* GET /trends/top
GetTopTrendingApi(tenant, analysis_date, limit, account_id) ==
    /\ \E response \in TopResponses(BagToSet(trends), tenant, analysis_date,
                                    limit, account_id) :
          ret' = Some([op |-> "get_top_trending", tenant |-> tenant,
                       analysis_date |-> analysis_date, limit |-> limit,
                       account_id |-> account_id, response |-> response])
    /\ UNCHANGED <<today, accounts, listings, metrics, trends, run, syncs>>

\* midnight
ApiTick ==
    /\ today + 1 \in Days
    /\ today' = today + 1
    /\ UNCHANGED <<accounts, listings, metrics, trends, run, ret, syncs>>

NextApi ==
    \/ \E l \in DOMAIN listings, d \in Days, trending \in BOOLEAN :
          ApiStoreTrend(l, d, trending)
    \/ \E tenant \in Tenants, analysis_date \in {NULL} \cup {Some(d) : d \in Days},
          limit \in LimitChoices, account_id \in {NULL, Some(1), Some(3)} :
          GetTopTrendingApi(tenant, analysis_date, limit, account_id)
    \/ ApiTick

SpecApi == InitApi /\ [][NextApi]_vars

----------------------------------------------------------------------------
(* Properties.  The rows are read from the tables as stored, not through   *)
(* the service's queries.                                                  *)

\* analyze_account has just returned
Returned == ~IsNull(ret) /\ Val(ret).op = "analyze_account"

\* the stored trend rows of the listings of account a for date d
StoredTrends(a, d) ==
    {t \in BagToSet(trends) :
        /\ t.analysis_date = d
        /\ t.listing_id \in DOMAIN listings
        /\ listings[t.listing_id].account_id = a}

\* the number of stored rows among S, copies included
RECURSIVE StoredCount(_)
StoredCount(S) ==
    IF S = {} THEN 0
    ELSE LET t == CHOOSE x \in S : TRUE
         IN  CopiesIn(t, trends) + StoredCount(S \ {t})

\* listing l has a snapshot stored for day d
HasSnapshot(l, d) ==
    \E m \in BagToSet(metrics) : m.listing_id = l /\ m.recorded_date = d

\* C1: when analyze_account(account, date) has returned, the ranks of the n
\* trend rows of that account and date are the integers 1..n, each carried by
\* exactly one row, and a row of lower rank never has a lower score; rows of
\* equal score therefore carry distinct, consecutive ranks.
C1_RanksDenseByScore ==
    Returned =>
        LET rows == StoredTrends(Val(ret).account, Val(ret).date)
            n    == StoredCount(rows)
        IN  /\ \A t \in rows : ~IsNull(t.rank) /\ Val(t.rank) \in 1..n
            /\ \A k \in 1..n :
                   \E t \in rows :
                      /\ Val(t.rank) = k
                      /\ CopiesIn(t, trends) = 1
                      /\ \A u \in rows : Val(u.rank) = k => u = t
            /\ \A t, u \in rows :
                   Val(t.rank) < Val(u.rank) => t.trend_score >= u.trend_score

\* C1, its case: a run over more than ten rows has returned and two rows of
\* equal score hold neighbouring ranks
C1_TieRanked ==
    /\ Returned
    /\ LET rows == StoredTrends(Val(ret).account, Val(ret).date)
       IN  /\ StoredCount(rows) > 10
           /\ \E t, u \in rows :
                  /\ t.listing_id # u.listing_id
                  /\ t.trend_score = u.trend_score
                  /\ ~IsNull(t.rank) /\ ~IsNull(u.rank)
                  /\ Val(u.rank) = Val(t.rank) + 1

\* C3: in every state every trend row is trending exactly when its rank is
\* set and is at most 10; a row without a rank is not trending.
C3_TrendingIffTopTen ==
    \A t \in BagToSet(trends) :
        t.is_trending <=> (~IsNull(t.rank) /\ Val(t.rank) <= 10)

\* C3, its case: a row of rank 10 that is trending is stored next to a row of
\* rank 11 that is not
C3_RankElevenStored ==
    /\ \E t \in BagToSet(trends) : t.rank = Some(10) /\ t.is_trending
    /\ \E t \in BagToSet(trends) : t.rank = Some(11) /\ ~t.is_trending

C2_RankAfterScoring ==
    [][(\E u \in BagToSet(trends') :
           /\ ~IsNull(u.rank) \/ u.is_trending
           /\ \A t \in BagToSet(trends) :
                  ~(/\ t.listing_id = u.listing_id
                    /\ t.analysis_date = u.analysis_date
                    /\ t.rank = u.rank
                    /\ t.is_trending = u.is_trending))
       => /\ run[1].pc = "scoring"
          /\ run[1].todo = {}
          /\ \A l \in run[1].enumerated :
                 IF HasSnapshot(l, run[1].analysis_date)
                 THEN /\ l \in run[1].results
                      /\ \E t \in BagToSet(trends) :
                             /\ t.listing_id = l
                             /\ t.analysis_date = run[1].analysis_date
                      /\ \E t \in BagToSet(trends') :
                             /\ t.listing_id = l
                             /\ t.analysis_date = run[1].analysis_date
                             /\ ~IsNull(t.rank)
                 ELSE l \notin run[1].results]_vars

\* C2, its case: a run over two listings has scored one, skipped the other
\* and written no rank yet
C2_ScoredBeforeRanking ==
    /\ run[1].pc = "scoring"
    /\ run[1].todo = {}
    /\ Cardinality(run[1].enumerated) = 2
    /\ Cardinality(run[1].results) = 1
    /\ \A t \in BagToSet(trends) : IsNull(t.rank)
    /\ trends # EmptyBag

\* C5: calculate_trend_score(l, d) returns None exactly when l has no
\* snapshot of day d, whatever is stored for other days; and a turn of the
\* loop that calls analyze_listing for such a listing leaves the table of
\* trend rows as it was and adds nothing to the results.
C5_NoSnapshotNoScore ==
    /\ [](\A l \in DOMAIN listings, d \in Days :
             IsNull(CalculateTrendScore(l, d)) <=> ~HasSnapshot(l, d))
    /\ [][(run[1].pc = "scoring" /\ run'[1].pc = "scoring")
          => \A l \in run[1].todo :
                run'[1].todo = run[1].todo \ {l}
                => IF HasSnapshot(l, run[1].analysis_date)
                   THEN l \in run'[1].results
                   ELSE trends' = trends /\ run'[1].results = run[1].results]_vars

\* C5, its case: a listing with a snapshot of day 1 only has been skipped by
\* a run for day 2 while the table holds rows of other listings
C5_SkippedWithOtherDay ==
    /\ run[1].pc = "scoring"
    /\ run[1].analysis_date = 2
    /\ trends # EmptyBag
    /\ \E l \in run[1].enumerated \ (run[1].todo \cup run[1].results) :
          HasSnapshot(l, 1) /\ ~HasSnapshot(l, 2)

\* C6: when analyze_account(a, d) has returned, it had enumerated the k
\* active listings of a, its results are the k - m of them that have a
\* snapshot of d, each of these has one ranked row for d, and none of the m
\* others has a row for d.
C6_BatchSkipsMissing ==
    Returned =>
        LET r       == Val(ret)
            k       == Cardinality(ActiveListings(r.account))
            missing == {l \in ActiveListings(r.account) : ~HasSnapshot(l, r.date)}
            rowsOf(l) == {t \in BagToSet(trends) :
                             t.listing_id = l /\ t.analysis_date = r.date}
        IN  /\ r.enumerated = ActiveListings(r.account)
            /\ Cardinality(r.results) = k - Cardinality(missing)
            /\ r.results = r.enumerated \ missing
            /\ \A l \in r.results :
                   /\ StoredCount(rowsOf(l)) = 1
                   /\ \A t \in rowsOf(l) : ~IsNull(t.rank)
            /\ \A l \in missing : rowsOf(l) = {}

\* C6, its case: a run over two active listings, one of them without a
\* snapshot of the date, has returned one result
C6_OneOfTwoMissing ==
    /\ Returned
    /\ Cardinality(Val(ret).enumerated) = 2
    /\ Cardinality(Val(ret).results) = 1
    /\ \E l \in Val(ret).enumerated : ~HasSnapshot(l, Val(ret).date)

\* C7: in every state the table holds at most one trend row for a listing
\* and an analysis date.
C7_OneRowPerListingAndDate ==
    \A t \in BagToSet(trends) :
        /\ CopiesIn(t, trends) = 1
        /\ \A u \in BagToSet(trends) :
               (u.listing_id = t.listing_id /\ u.analysis_date = t.analysis_date)
               => u = t

\* C7, its case: a run has scored a listing again whose row an earlier run
\* had ranked, and the table holds rows of two dates
C7_ScoredAgain ==
    /\ run[1].pc = "scoring"
    /\ \E l \in run[1].results :
          \E t \in BagToSet(trends) :
             /\ t.listing_id = l
             /\ t.analysis_date = run[1].analysis_date
             /\ ~IsNull(t.rank)
    /\ \E t, u \in BagToSet(trends) : t.analysis_date # u.analysis_date

\* the five score fields of a trend row
ScoreFields(t) ==
    <<t.trend_score, t.view_growth_rate, t.watch_growth_rate,
      t.view_7day_avg, t.watch_7day_avg>>

\* C8: the snapshots being what they were at the first call, a further call
\* of analyze_listing for the same listing and date leaves the five score
\* fields of the stored row as the call before it left them.
C8_RescoreKeepsFields ==
    [][(/\ ~IsNull(ret')
        /\ Val(ret').op = "analyze_listing"
        /\ Val(ret').branch = "updated"
        /\ metrics' = metrics)
       => LET before == {t \in BagToSet(trends) :
                            /\ t.listing_id = Val(ret').listing
                            /\ t.analysis_date = Val(ret').date}
              after  == {t \in BagToSet(trends') :
                            /\ t.listing_id = Val(ret').listing
                            /\ t.analysis_date = Val(ret').date}
          IN  /\ before # {}
              /\ {ScoreFields(t) : t \in after} = {ScoreFields(t) : t \in before}]_vars

\* C8, its case: analyze_listing has updated the row of a listing whose score
\* and averages are not zero
C8_Rescored ==
    /\ ~IsNull(ret)
    /\ Val(ret).op = "analyze_listing"
    /\ Val(ret).branch = "updated"
    /\ \E t \in BagToSet(trends) :
          /\ t.listing_id = Val(ret).listing
          /\ t.trend_score > 0
          /\ t.view_7day_avg > 0
          /\ t.watch_growth_rate < 0

\* C9: a ranking pass over rows that all hold a rank already, that is, over
\* the set of scores the previous pass ranked, leaves every rank as it was.
C9_RerunKeepsRanks ==
    [][(/\ run[1].pc = "scoring"
        /\ run'[1].pc = "idle"
        /\ \A t \in StoredTrends(run[1].account_id, run[1].analysis_date) :
               ~IsNull(t.rank))
       => \A t \in BagToSet(trends) :
             \E u \in BagToSet(trends') :
                /\ u.listing_id = t.listing_id
                /\ u.analysis_date = t.analysis_date
                /\ u.rank = t.rank]_vars

\* the growth rate g (in hundredths of a percent) the claim gives for today's
\* count t and the prior-day counts ys (none, or the one of the snapshot)
GrowthAsSpecified(g, t, ys) ==
    IF \E y \in ys : y > 0
    THEN \A y \in ys : 2 * Abs(g * y - 10000 * (t - y)) <= y
    ELSE IF ys # {} /\ t > 0 THEN g = 10000
    ELSE g = 0

\* C10: the view growth rate returned by calculate_trend_score is
\* (today - yesterday) / yesterday * 100, to the nearest hundredth, when the
\* prior day has a snapshot with a positive count, 100 when that count is 0
\* and today's is positive, and 0 when the prior day has no snapshot or both
\* counts are 0; the watch growth rate likewise, from the watch counts.
C10_GrowthRateCases ==
    (/\ ~IsNull(ret)
     /\ Val(ret).op = "calculate_trend_score"
     /\ ~IsNull(Val(ret).result))
    => LET r  == Val(Val(ret).result)
           ts == {m \in BagToSet(metrics) :
                     m.listing_id = Val(ret).listing /\ m.recorded_date = Val(ret).date}
           ys == {m \in BagToSet(metrics) :
                     m.listing_id = Val(ret).listing /\ m.recorded_date = Val(ret).date - 1}
       IN  \A t \in ts :
              /\ GrowthAsSpecified(r.view_growth_rate, t.view_count,
                                   {y.view_count : y \in ys})
              /\ GrowthAsSpecified(r.watch_growth_rate, t.watch_count,
                                   {y.watch_count : y \in ys})
              /\ (\E y \in ys : y.view_count = t.view_count /\ t.view_count > 0)
                     => r.view_growth_rate = 0

\* C10, its case: a result with a view growth of -66.67 (3 views, then 1) and
\* a watch growth of 100 (no watcher, then some)
C10_FallAndFirstWatch ==
    /\ ~IsNull(ret)
    /\ Val(ret).op = "calculate_trend_score"
    /\ ~IsNull(Val(ret).result)
    /\ Val(Val(ret).result).view_growth_rate = -6667
    /\ Val(Val(ret).result).watch_growth_rate = 10000

\* the stored snapshots of listing l dated from day lo to day hi
SnapshotsBetween(l, lo, hi) ==
    {m \in BagToSet(metrics) :
        m.listing_id = l /\ m.recorded_date >= lo /\ m.recorded_date <= hi}

\* the sum of the values v[m] over the snapshots S
RECURSIVE SumOver(_, _)
SumOver(S, v) ==
    IF S = {} THEN 0
    ELSE LET m == CHOOSE x \in S : TRUE
         IN  CopiesIn(m, metrics) * v[m] + SumOver(S \ {m}, v)

\* C11: view_7day_avg and watch_7day_avg are, to the nearest hundredth, the
\* sum of the counts of the snapshots dated in [analysis_date - 6,
\* analysis_date] divided by the number of those snapshots; snapshots dated
\* outside that range contribute nothing.
C11_AverageOverPresent ==
    (/\ ~IsNull(ret)
     /\ Val(ret).op = "calculate_trend_score"
     /\ ~IsNull(Val(ret).result))
    => LET r  == Val(Val(ret).result)
           d  == Val(ret).date
           inside == SnapshotsBetween(Val(ret).listing, d - 6, d)
           n  == SumOver(inside, [m \in inside |-> 1])
           views   == SumOver(inside, [m \in inside |-> m.view_count])
           watches == SumOver(inside, [m \in inside |-> m.watch_count])
       IN  /\ n > 0
           /\ 2 * Abs(r.view_7day_avg * n - 100 * views) <= n
           /\ 2 * Abs(r.watch_7day_avg * n - 100 * watches) <= n

\* C11, its case: snapshots of 10, 20 and 30 views on three days of the
\* window with gaps between them, further snapshots before and after the
\* window, and an average of 20.00
C11_ThreeOfSeven ==
    /\ ~IsNull(ret)
    /\ Val(ret).op = "calculate_trend_score"
    /\ ~IsNull(Val(ret).result)
    /\ Val(Val(ret).result).view_7day_avg = 2000
    /\ {<<m.recorded_date, m.view_count>> :
            m \in SnapshotsBetween(1, 2, 8)} = {<<4, 10>>, <<6, 20>>, <<8, 30>>}
    /\ SnapshotsBetween(1, 1, 1) # {}
    /\ SnapshotsBetween(1, 9, 9) # {}

\* C12: the price momentum is computed from the snapshots of the window
\* [analysis_date - 6, analysis_date] that have a price: it is 0 when fewer
\* than two have one or when the earliest of them has price 0, and
\* otherwise (latest price - earliest price) / earliest price * 100, by
\* date, held to the range [-100, 100].
C12_PriceMomentum ==
    (~IsNull(ret) /\ Val(ret).op = "_calculate_price_momentum")
    => LET pm     == Val(ret).momentum
           d      == Val(ret).date
           priced == {m \in SnapshotsBetween(Val(ret).listing, d - 6, d) :
                         ~IsNull(m.current_price)}
           n      == SumOver(priced, [m \in priced |-> 1])
       IN  /\ pm[2] > 0
           /\ -100 * pm[2] <= pm[1] /\ pm[1] <= 100 * pm[2]
           /\ IF n < 2 THEN pm[1] = 0
              ELSE \A f, g \in priced :
                      (/\ \A m \in priced : f.recorded_date <= m.recorded_date
                       /\ \A m \in priced : g.recorded_date >= m.recorded_date)
                      => LET first == Val(f.current_price)
                             last  == Val(g.current_price)
                             gain  == 100 * (last - first)
                         IN  IF first = 0 THEN pm[1] = 0
                             ELSE IF gain > 100 * first THEN pm = <<100, 1>>
                             ELSE IF gain < -100 * first THEN pm = <<-100, 1>>
                             ELSE pm[1] * first = gain * pm[2]

\* C12, its case: a momentum of 10 from 10.00 on day 4 to 11.00 on day 8,
\* with a price of 30.00 in between, no price on day 2 and a price on day 1,
\* before the window
C12_TenPercent ==
    /\ ~IsNull(ret)
    /\ Val(ret).op = "_calculate_price_momentum"
    /\ Val(ret).momentum = <<10, 1>>
    /\ {<<m.recorded_date, m.current_price>> : m \in SnapshotsBetween(1, 1, 8)}
          = {<<1, Some(3000)>>, <<2, NULL>>, <<4, Some(1000)>>,
             <<6, Some(3000)>>, <<8, Some(1100)>>}

\* the growth, as an exact fraction in lowest terms, of today's count t against the
\* prior-day counts ys (none, or the one of the snapshot)
GrowthValue(t, ys) ==
    IF \E y \in ys : y > 0
    THEN LET y == CHOOSE x \in ys : x > 0 IN Frac(100 * (t - y), y)
    ELSE IF ys # {} /\ t > 0 THEN <<100, 1>>
    ELSE <<0, 1>>

\* the price momentum, as an exact fraction, of listing l on day d
MomentumValue(l, d) ==
    LET priced == {m \in SnapshotsBetween(l, d - 6, d) : ~IsNull(m.current_price)}
    IN  IF SumOver(priced, [m \in priced |-> 1]) < 2 THEN <<0, 1>>
        ELSE LET f == CHOOSE x \in priced :
                        \A m \in priced : x.recorded_date <= m.recorded_date
                 g == CHOOSE x \in priced :
                        \A m \in priced : x.recorded_date >= m.recorded_date
                 first == Val(f.current_price)
                 gain  == 100 * (Val(g.current_price) - first)
             IN  IF first = 0 THEN <<0, 1>>
                 ELSE IF gain > 100 * first THEN <<100, 1>>
                 ELSE IF gain < -100 * first THEN <<-100, 1>>
                 ELSE Frac(gain, first)

IsHalfUp(r, x) ==
    IF x[1] >= 0
    THEN 2 * r * x[2] <= 200 * x[1] + x[2] /\ 200 * x[1] + x[2] < 2 * (r + 1) * x[2]
    ELSE 2 * (-r) * x[2] <= -200 * x[1] + x[2] /\ -200 * x[1] + x[2] < 2 * (1 - r) * x[2]

\* C14: every decimal field returned by calculate_trend_score is the exact
\* value rounded half-up to two fractional digits.
C14_RoundedHalfUp ==
    (/\ ~IsNull(ret)
     /\ Val(ret).op = "calculate_trend_score"
     /\ ~IsNull(Val(ret).result))
    => LET r  == Val(Val(ret).result)
           l  == Val(ret).listing
           d  == Val(ret).date
           ys == SnapshotsBetween(l, d - 1, d - 1)
           inside == SnapshotsBetween(l, d - 6, d)
           n  == SumOver(inside, [m \in inside |-> 1])
       IN  /\ IsHalfUp(r.view_7day_avg,
                       Frac(SumOver(inside, [m \in inside |-> m.view_count]), n))
           /\ IsHalfUp(r.watch_7day_avg,
                       Frac(SumOver(inside, [m \in inside |-> m.watch_count]), n))
           /\ \A t \in SnapshotsBetween(l, d, d) :
                  LET vg  == GrowthValue(t.view_count, {y.view_count : y \in ys})
                      wg  == GrowthValue(t.watch_count, {y.watch_count : y \in ys})
                      pm  == MomentumValue(l, d)
                      num == 4 * vg[1] * wg[2] * pm[2] + 4 * wg[1] * vg[2] * pm[2]
                               + 2 * pm[1] * vg[2] * wg[2]
                      den == 10 * vg[2] * wg[2] * pm[2]
                  IN  /\ IsHalfUp(r.view_growth_rate, vg)
                      /\ IsHalfUp(r.watch_growth_rate, wg)
                      /\ IsHalfUp(r.trend_score,
                                  IF num < 0 THEN <<0, 1>> ELSE Frac(num, den))

\* C15: calculate_trend_score never ends in an arithmetic error, whatever
\* the counts (zero or positive) and the prices (none, zero or positive)
\* of the snapshots: it returns a result exactly when the snapshot of the
\* analysis date exists, with a growth of 0 or 100 where the prior-day count
\* is 0.
C15_NoArithmeticError ==
    (~IsNull(ret) /\ Val(ret).op = "calculate_trend_score")
    => LET l  == Val(ret).listing
           d  == Val(ret).date
           ys == SnapshotsBetween(l, d - 1, d - 1)
       IN  /\ ~Val(ret).raised
           /\ ~IsNull(Val(ret).result) <=> HasSnapshot(l, d)
           /\ ~IsNull(Val(ret).result) =>
                 LET r == Val(Val(ret).result)
                 IN  /\ (\E y \in ys : y.view_count = 0)
                           => r.view_growth_rate \in {0, 10000}
                     /\ (\E y \in ys : y.watch_count = 0)
                           => r.watch_growth_rate \in {0, 10000}
                     /\ r.trend_score >= 0

\* C15, its case: a result for a listing whose prior-day snapshot has no
\* view, no watcher and a price of 0.00, and whose snapshot of the day has
\* views and a positive price
C15_AllDivisorsZero ==
    /\ ~IsNull(ret)
    /\ Val(ret).op = "calculate_trend_score"
    /\ ~IsNull(Val(ret).result)
    /\ Val(Val(ret).result).view_growth_rate = 10000
    /\ Val(Val(ret).result).watch_growth_rate = 0
    /\ \E y \in SnapshotsBetween(1, Val(ret).date - 1, Val(ret).date - 1) :
          y.view_count = 0 /\ y.watch_count = 0 /\ y.current_price = Some(0)
    /\ \E t \in SnapshotsBetween(1, Val(ret).date, Val(ret).date) :
          t.watch_count = 0 /\ t.current_price = Some(2000)

\* C16: from the moment analyze_listing has written the row of a listing
\* until the ranking pass of the run, that row has no rank, is not trending
\* and is not in the list get_top_trending returns.
C16_UnrankedUntilRanking ==
    run[1].pc = "scoring" =>
        \A l \in run[1].results :
            \A t \in BagToSet(trends) :
                (t.listing_id = l /\ t.analysis_date = run[1].analysis_date)
                => /\ IsNull(t.rank)
                   /\ ~t.is_trending
                   /\ \A q \in GetTopTrending(run[1].account_id,
                                               run[1].analysis_date, 10) :
                          \A i \in 1..Len(q) : q[i] # t

\* C18: get_top_trending(account, date, limit) changes no stored row and
\* returns at most limit rows, all of them stored rows of the account's
\* listings for the date that are trending, in ascending rank order, leaving
\* out none that would fit; called with limit 10 right after analyze_account
\* has returned n results it returns the rows of rank 1..min(n, 10).
C18_TopTrendingQuery ==
    [][(~IsNull(ret') /\ Val(ret').op = "get_top_trending")
       => LET r == Val(ret')
              q == r.rows
              trending == {t \in StoredTrends(r.account, r.date) : t.is_trending}
          IN  /\ trends' = trends
              /\ Len(q) <= r.limit
              /\ \A i \in 1..Len(q) : q[i] \in trending
              /\ \A i, j \in 1..Len(q) : i < j => Val(q[i].rank) < Val(q[j].rank)
              /\ Len(q) < r.limit => trending = {q[i] : i \in 1..Len(q)}
              /\ (Returned /\ Val(ret).account = r.account
                           /\ Val(ret).date = r.date /\ r.limit = 10)
                 => LET n == Cardinality(Val(ret).results)
                    IN  /\ Len(q) = IF n <= 10 THEN n ELSE 10
                        /\ \A i \in 1..Len(q) : q[i].rank = Some(i)]_vars

\* C18, its case: with 11 ranked rows stored, a call with limit 11 has
\* returned the ten trending ones
C18_TenOfEleven ==
    /\ ~IsNull(ret)
    /\ Val(ret).op = "get_top_trending"
    /\ Val(ret).limit = 11
    /\ Len(Val(ret).rows) = 10
    /\ StoredCount(StoredTrends(Val(ret).account, Val(ret).date)) = 11

\* C17: the ranking pass of an analyze_account run gives the ranks 1..k to
\* the k rows, for the analysis date, of the listings the run enumerated,
\* and writes no row of a listing outside that set.
C17_RanksEnumeratedOnly ==
    [][(run[1].pc = "scoring" /\ run'[1].pc # "scoring")
       => LET after == {t \in BagToSet(trends') :
                           /\ t.analysis_date = run[1].analysis_date
                           /\ t.listing_id \in DOMAIN listings
                           /\ listings[t.listing_id].account_id = run[1].account_id}
              own   == {t \in after : t.listing_id \in run[1].enumerated}
          IN  /\ {t.rank : t \in own} = {Some(k) : k \in 1..Cardinality(own)}
              /\ \A t \in after \ own : t \in BagToSet(trends)]_vars

\* C19: when no analyze_account call is in progress, there is one row per
\* (listing, date), and the ranks of the rows of the account and date are
\* exactly 1..n, each once, with is_trending set exactly for the ranks up to
\* top_n.
C19_RacedRunsKeepRanks ==
    (\A p \in DOMAIN run : run[p].pc = "idle")
    => LET rows == TrendsOfAccount(1, today)
       IN  /\ \A t \in rows : CopiesIn(t, trends) = 1
           /\ \A t, u \in rows : t.listing_id = u.listing_id => t = u
           /\ \A t \in rows : ~IsNull(t.rank)
           /\ {Val(t.rank) : t \in rows} = 1..Cardinality(rows)
           /\ \A t, u \in rows : t.rank = u.rank => t = u
           /\ \A t \in rows : t.is_trending <=> (Val(t.rank) <= TopN)

\* C21: when the commit of one listing's result is the only statement that
\* failed during analyze_account, the call returns the other listings that
\* have a snapshot of the date, and their rows are stored and ranked.
C21_PersistFailureConfined ==
    [][(/\ run[1].pc = "scoring"
        /\ run[1].todo = {}
        /\ run'[1].pc # "scoring"
        /\ run'[1].faults = 1
        /\ Cardinality(run[1].failed) = 1)
       => /\ run[1].results =
               {l \in run[1].enumerated : HasSnapshot(l, run[1].analysis_date)}
                  \ run[1].failed
          /\ IF run[1].kind = "account"
             THEN /\ Val(ret').status = "success"
                  /\ Val(ret').listings_analyzed = Cardinality(run[1].results)
             ELSE run[1].account_id \in run'[1].accounts_processed
          /\ \A l \in run[1].results :
                \E t \in BagToSet(trends') :
                   /\ t.listing_id = l
                   /\ t.analysis_date = run[1].analysis_date
                   /\ ~IsNull(t.rank)]_vars

\* C22: when the first query of a task's execution raises (the listings of
\* the account in analyze_single_account, the accounts in analyze_all_trends),
\* the task does not report success: it asks for a retry in 300 s while fewer
\* than 3 retries were made and fails after that; and whenever a task is not
\* executing, its session is closed.
C22_EnumerationFailureRetried ==
    [][/\ (run[1].pc = "begin" /\ run'[1].pc = "idle")
          => /\ Val(ret').op = run[1].kind
             /\ Val(ret').status # "success"
             /\ run[1].retries < MaxRetries
                   => /\ Val(ret').status = "retry"
                      /\ Val(ret').countdown = RetryCountdown
                      /\ Val(ret').retries = run[1].retries + 1
                      /\ run'[1].retries = run[1].retries + 1
             /\ run[1].retries >= MaxRetries => Val(ret').status = "failure"
             /\ trends' = trends
       /\ run'[1].retries <= MaxRetries
       /\ (run'[1].pc = "idle") <=> (run'[1].session = "closed")
      ]_vars

\* C22, its case: analyze_single_account has failed after its third retry,
\* every execution having ended at the query for the listings
C22_FailedAfterThreeRetries ==
    /\ ~IsNull(ret)
    /\ Val(ret).op = "account"
    /\ Val(ret).status = "failure"
    /\ Val(ret).retries = MaxRetries
    /\ run[1].faults = 0
    /\ trends = EmptyBag

\* C20: when analyze_all_accounts returns, every active account in whose
\* processing no statement failed has been analysed and is in
\* accounts_processed, and the totals are those of the processed accounts.
C20_OtherAccountsAnalysed ==
    [][(/\ run[1].pc = "accounts"
        /\ run[1].kind = "all"
        /\ run'[1].pc = "idle")
       => /\ ActiveAccounts \ run[1].faulted \subseteq Val(ret').accounts_processed
          /\ Val(ret').total_accounts = Cardinality(Val(ret').accounts_processed)
          /\ Val(ret').listings_analyzed = run[1].total_listings]_vars

\* C23: there is at most one DailyMetric row per (listing, recorded_date); a
\* sync of an item leaves exactly one row of its listing for today, holding
\* the counts and the price of the item data, and changes no other row; no
\* other operation changes the table.
C23_OneSnapshotPerListingAndDay ==
    [][/\ \A m \in BagToSet(metrics') :
             /\ CopiesIn(m, metrics') = 1
             /\ \A n \in BagToSet(metrics') :
                   (n.listing_id = m.listing_id /\ n.recorded_date = m.recorded_date)
                      => n = m
       /\ (syncs' = syncs + 1)
             => \E l \in DOMAIN listings', item \in SyncItems :
                   /\ {m \in BagToSet(metrics') :
                          m.listing_id = l /\ m.recorded_date = today}
                        = {DailyMetric(l, today, item)}
                   /\ {m \in BagToSet(metrics') :
                          ~(m.listing_id = l /\ m.recorded_date = today)}
                        = {m \in BagToSet(metrics) :
                              ~(m.listing_id = l /\ m.recorded_date = today)}
       /\ (syncs' = syncs) => metrics' = metrics
      ]_vars

\* C23, its case: three syncs of listing 1 over two days have left two rows,
\* so one of them met the row of its day and overwrote it
C23_ResyncedSameDay ==
    /\ today = 2
    /\ syncs = 3
    /\ BagCardinality(metrics) = 2
    /\ \E m \in BagToSet(metrics) :
          m.listing_id = 1 /\ m.recorded_date = 1 /\ m.view_count = 0
    /\ \E m \in BagToSet(metrics) :
          m.listing_id = 1 /\ m.recorded_date = 2 /\ m.view_count = 1 /\ m.watch_count = 1

C25_ScoreWithinRange ==
    /\ (/\ ~IsNull(ret)
        /\ Val(ret).op = "calculate_trend_score"
        /\ ~IsNull(Val(ret).result))
          => /\ Val(Val(ret).result).trend_score >= 0
             /\ Val(Val(ret).result).trend_score <= 10000
    /\ \A t \in BagToSet(trends) :
          t.trend_score >= 0 /\ t.trend_score <= 10000

\* the row belongs to a listing of account a and to date d
InScope(t, a, d) ==
    /\ t.analysis_date = d
    /\ t.listing_id \in DOMAIN listings
    /\ listings[t.listing_id].account_id = a

\* C26: every step of analyze_account(a, d) leaves the DailyMetric and Listing
\* rows and the TrendAnalysis rows of other accounts and of other dates as
\* they are; the ranking pass leaves the score fields of every row as they
\* are and changes rank and is_trending only.
C26_OnlyOwnRowsChange ==
    [][(run[1].pc = "scoring")
       => LET a == run[1].account_id
              d == run[1].analysis_date
          IN  /\ metrics' = metrics
              /\ listings' = listings
              /\ \A t \in BagToSet(trends) \cup BagToSet(trends') :
                    ~InScope(t, a, d) => CopiesIn(t, trends') = CopiesIn(t, trends)
              /\ (run[1].todo = {})
                    => /\ BagCardinality(trends') = BagCardinality(trends)
                       /\ \A t \in BagToSet(trends) :
                             \E u \in BagToSet(trends') :
                                /\ u.listing_id = t.listing_id
                                /\ u.analysis_date = t.analysis_date
                                /\ ScoreFields(u) = ScoreFields(t)]_vars

\* C26, its case: analyze_account(1, day 2) has returned and ranked a row,
\* while a ranked row of account 2 for day 2 and a ranked row of account 1 for
\* day 1 are stored
C26_OtherRowsStored ==
    /\ Returned
    /\ Val(ret).account = 1
    /\ Val(ret).date = 2
    /\ Val(ret).results # {}
    /\ \E t \in StoredTrends(2, 2) : ~IsNull(t.rank)
    /\ \E t \in StoredTrends(1, 1) : ~IsNull(t.rank)
    /\ \E t \in StoredTrends(1, 2) : ~IsNull(t.rank)

C29_EveryRequestCounted ==
    (~IsNull(ret) /\ Val(ret).op = "sync_account_listings")
        => Val(ret).recorded = Val(ret).requests

\* C28: with every request made after a check_rate_limit that returned True
\* and followed by record_api_call, the counter of the tenant's trading API
\* for the day never exceeds the daily limit.
C28_CounterWithinLimit ==
    syncs.counter[today] <= DailyLimit

\* C30: the response of GET /trends/top for a tenant is one the endpoint may
\* give on the database that holds the tenant's own TrendAnalysis rows only,
\* so rows of other tenants never change it.
C30_ResponseOfOwnData ==
    [][(ret' # ret /\ ~IsNull(ret'))
          => Val(ret').response \in
                TopResponses(RowsOfTenant(Val(ret').tenant), Val(ret').tenant,
                             Val(ret').analysis_date, Val(ret').limit,
                             Val(ret').account_id)
      ]_vars

====
